---- MODULE Spec2Model ----
(***************************************************************************)
(* Pipeline & Peril game-state engines.                                    *)
(*                                                                         *)
(* Two engines are modelled side by side, selected by the variable         *)
(* `engine`:                                                               *)
(*   "adv"  src/digital/pygame/src/engine/advanced_game_state.py           *)
(*          (AdvancedGameState, pydantic model, validate_assignment=True)  *)
(*   "gs"   src/digital/pygame/src/engine/game_state.py                    *)
(*          (GameState, plain dataclass with a separate Grid index)        *)
(*                                                                         *)
(* Specifications:                                                         *)
(*   Spec       the orchestrator: add_service, remove_service,             *)
(*              next_player, next_phase, players.append                    *)
(*   SpecPhase  the turn phase machine driven from Setup, with a call      *)
(*              counter                                                    *)
(*   SpecSpend  the resource pool: can_afford / spend                      *)
(*   SpecLoad   one Service: can_handle_load / add_load                    *)
(*   SpecSim    the game loop of simulate_game_async and its phase         *)
(*              handlers                                                   *)
(*   SpecVictory  is_game_over / get_winner on constructed games           *)
(*   SpecRuns   the game loop run by two processes on the same players     *)
(*   SpecHex    HexCoordinate: distance and neighbors                      *)
(*   SpecMetrics  the game loop from the starting services on, and the     *)
(*              orchestrator of game_state.py                              *)
(*   SpecBuild  the drivers that build services: quick_test.py, demo.py,   *)
(*              simulate_game_async                                        *)
(*   SpecUptime record_uptime and reads of Player.average_uptime           *)
(*   SpecCreate create_initial_game_state of game_state.py                 *)
(*   SpecSimple simple_game_state.GameState: add_service and the action    *)
(*              phase of run_experiment.py                                 *)
(*   SpecBatch  run_experiment.py: a batch of games                        *)
(*                                                                         *)
(* A third engine, "simple" (src/digital/pygame/src/engine/                *)
(* simple_game_state.py), is modelled for the last two.                    *)
(***************************************************************************)
EXTENDS Integers, Sequences, FiniteSets, TLC

VARIABLES
    engine,                \* "adv" | "gs" | "simple": which engine this game is
    phase,                 \* GameState.phase
    round,                 \* GameState.round
    players,               \* GameState.players: sequence of Player records
    services,              \* GameState.services: function id -> Service record
    grid,                  \* gs only: Grid.services, function location -> id
    current_player_index,  \* GameState.current_player_index
    services_built,        \* metrics.services_built
    action_log,            \* GameState.action_log: sequence of entries
    entropy,               \* GameState.entropy
    metrics,               \* metrics.total_requests / cascade_failures / chaos_events
    hashes,                \* this process's hash(str(n)) values computed so far
    svc,                   \* the Service object of SpecLoad
    op,                    \* name of the last operation called
    arg,                   \* its argument (add_service: the service's location)
    ret,                   \* what the call gave back: a value or a raised error
    calls,                 \* number of calls made so far (next_phase(), loop
                           \* passes, record_uptime, add_service)
    phase0,                \* the phase the game was constructed in
    run2                   \* SpecRuns: the game and hashes of a second process;
                           \* SpecSimple, SpecBatch: the configuration and the batch

vars == <<engine, phase, round, players, services, grid, current_player_index,
          services_built, action_log, entropy, metrics, hashes, svc, op, arg, ret,
          calls, phase0, run2>>

----------------------------------------------------------------------------
(* Bounds of the model *)

MaxPlayers == 2     \* players per game
MaxIds == 2         \* distinct service ids a caller passes
MaxBuilt == 2       \* successful add_service calls per game
MaxCalls == 202     \* next_phase() calls explored by the phase specification
MaxPool == 4        \* largest initial amount of a resource in the pool specification
MaxCost == 2        \* largest cost per resource a caller passes to spend
MaxLoad == 4        \* largest initial current_load of the service specification
MaxBugs == 1        \* largest initial bugs
MaxUpgrades == 1    \* largest initial upgrades
MaxLoadArg == 3     \* add_load is called with n in -MaxLoadArg..MaxLoadArg
MaxRemaining == 12  \* current_capacity at which the service specification stops
                    \* (a negative load raises it without limit)
MaxSimRound == 12   \* round at which the game-loop specification stops
MaxOwned == 2        \* services a player owns in the victory specification
MaxRunsRound == 6    \* round at which the two-process specification stops
MaxCoord == 2        \* hex rows and columns range over -MaxCoord..MaxCoord
MaxGameRound == 6    \* round at which the game loop of SpecMetrics stops
MaxDemoRound == 3    \* round at which the demo loop of SpecBuild stops
MaxRadius == 2       \* radius arguments of neighbors range over 1..MaxRadius
MaxRecords == 4      \* record_uptime calls of SpecUptime
MaxNames == 5        \* names given to create_initial_game_state
MaxGames == 2        \* games of a batch
MaxBatchRounds == 2  \* max_rounds of the experiment configurations
MaxSimpleCalls == 2  \* direct add_service calls of SpecSimple
MaxRound == 1       \* round at which the orchestrator specification stops
                    \* taking the Chaos->Traffic step

(* Program constants *)

grid_width == 8
grid_height == 6
RoundLimit == 50        \* AdvancedGameState.round: Field(ge=1, le=50)
DefaultActions == 3     \* Player.actions_remaining default and reset value
MaxActions == 5         \* Player.actions_remaining: in_(range(0, 6))
DefaultResource == 5    \* PlayerResources cpu / memory / storage default
ResourceLimit == 100    \* PlayerResources fields: Field(ge=0, le=100)
EntropyCap == 10        \* handle_chaos_phase: min(10, game.entropy + 1)
EntropyLimit == 20      \* AdvancedGameState.entropy: Field(ge=0, le=20)
GameOverRound == 20     \* is_game_over: round > 20
HistoryLen == 50        \* Player.uptime_history: deque(maxlen=50)
CoopRound == 10         \* get_winner: self.round >= 10
CoopUptime == 80        \* get_winner: avg_uptime > 80

Engines == {"adv", "gs"}

Ids == 1..MaxIds

(* Locations callers pass: two opposite corner cells of the 8x6 grid and    *)
(* one cell beyond each of the four edges.                                  *)
InputLocations ==
    { <<0, 0>>, <<grid_height - 1, grid_width - 1>>,
      <<-1, 0>>, <<grid_height, 0>>, <<0, -1>>, <<0, grid_width>> }

(* owner_id values callers pass: every valid index, one past the end, and -1 *)
InputOwners == (-1)..MaxPlayers

EmptyMap == [x \in {} |-> 0]

----------------------------------------------------------------------------
(* Python helpers *)

\* Python list indexing seq[i]: i in [-len, len) is accepted, negative counts
\* from the end.  Gives the 1-based position, or 0 for IndexError.
PyIndex(seq, i) ==
    IF i >= 0 /\ i < Len(seq) THEN i + 1
    ELSE IF i < 0 /\ i >= -Len(seq) THEN Len(seq) + i + 1
    ELSE 0

\* list.remove(x): drop the first occurrence of x
RECURSIVE ListRemove(_, _)
ListRemove(seq, x) ==
    IF seq = <<>> THEN <<>>
    ELSE IF Head(seq) = x THEN Tail(seq)
    ELSE <<Head(seq)>> \o ListRemove(Tail(seq), x)

\* x in list
InList(seq, x) == \E k \in 1..Len(seq) : seq[k] = x

\* dict with key k set to v
DictSet(d, k, v) == [x \in DOMAIN d \cup {k} |-> IF x = k THEN v ELSE d[x]]

\* dict with key k deleted (dict.pop(k, None))
DictPop(d, k) == [x \in DOMAIN d \ {k} |-> d[x]]

----------------------------------------------------------------------------
(* Entities *)

NewPlayer(i) ==
    [ id |-> i,
      services |-> <<>>,
      actions_remaining |-> DefaultActions,
      character_ability_used |-> FALSE,
      resources |-> [cpu |-> DefaultResource, memory |-> DefaultResource,
                     storage |-> DefaultResource],
      current_uptime |-> 100,
      uptime_history |-> <<>>,
      average_uptime |-> <<>> ]   \* cached_property: <<>> until first read

\* GameMetrics() / Metrics(); services_built is the variable of that name
NewMetrics == [total_requests |-> 0, cascade_failures |-> 0, chaos_events |-> 0]

NewService(id, loc, owner) == [id |-> id, location |-> loc, owner_id |-> owner]

----------------------------------------------------------------------------
(* Grid *)

\* mutant: the upper bounds are not checked
is_valid_coordinate_no_upper(coord) == 0 <= coord[1] /\ 0 <= coord[2]

is_valid_coordinate(coord) ==
    /\ 0 <= coord[1] /\ coord[1] < grid_height
    /\ 0 <= coord[2] /\ coord[2] < grid_width

\* mutant: occupancy is not checked
is_empty_always(g, coord) == TRUE

is_empty(g, coord) == coord \notin DOMAIN g

\* AdvancedGameState.service_grid: recomputed from the service map on each read
service_grid(svcs) ==
    [loc \in {svcs[i].location : i \in DOMAIN svcs} |->
        CHOOSE i \in DOMAIN svcs : svcs[i].location = loc]

----------------------------------------------------------------------------
(* The game object.  Handlers are operators from a game record (and the     *)
(* call's arguments) to the game record after the call, with the call's     *)
(* outcome in field ret: "True", "False", "None", or the error raised.      *)

Game ==
    [ engine |-> engine, phase |-> phase, round |-> round, players |-> players,
      services |-> services, grid |-> grid,
      current_player_index |-> current_player_index,
      services_built |-> services_built, action_log |-> action_log,
      entropy |-> entropy, metrics |-> metrics, ret |-> ret ]

Install(g) ==
    /\ engine' = g.engine
    /\ phase' = g.phase
    /\ round' = g.round
    /\ players' = g.players
    /\ services' = g.services
    /\ grid' = g.grid
    /\ current_player_index' = g.current_player_index
    /\ services_built' = g.services_built
    /\ action_log' = g.action_log
    /\ entropy' = g.entropy
    /\ metrics' = g.metrics
    /\ ret' = g.ret

\* AdvancedGameState.log_action (timestamp and state fingerprint left out)
log_action(g, action_type, player_id, parameters) ==
    Append(g.action_log,
           [ round |-> g.round, phase |-> g.phase, action_type |-> action_type,
             player_id |-> player_id, parameters |-> parameters ])

\* Grid.place_service: <<placed, grid after>>
place_service(g, coord, service_id) ==
    IF is_valid_coordinate(coord) /\ is_empty(g, coord)
    THEN <<TRUE, DictSet(g, coord, service_id)>>
    ELSE <<FALSE, g>>

\* players[owner].services.append(id)
AppendService(plrs, p, id) ==
    [plrs EXCEPT ![p].services = Append(@, id)]

\* mutant: the services_built increment is missing
adv_add_service_no_metric(g, service) ==
    IF ~is_valid_coordinate(service.location)
    THEN [g EXCEPT !.ret = "False"]
    ELSE IF ~is_empty(service_grid(g.services), service.location)
    THEN [g EXCEPT !.ret = "False"]
    ELSE
        LET s1 == DictSet(g.services, service.id, service)
            p == PyIndex(g.players, service.owner_id)
        IN  IF p = 0
            THEN [g EXCEPT !.services = s1, !.ret = "False"]
            ELSE [g EXCEPT !.services = s1,
                           !.players = AppendService(g.players, p, service.id),
                           !.action_log = log_action(g, "build_service",
                                                     service.owner_id, service),
                           !.ret = "True"]

\* AdvancedGameState.add_service
adv_add_service(g, service) ==
    IF ~is_valid_coordinate(service.location)
    THEN [g EXCEPT !.ret = "False"]
    ELSE IF ~is_empty(service_grid(g.services), service.location)
    THEN [g EXCEPT !.ret = "False"]
    ELSE
        LET s1 == DictSet(g.services, service.id, service)
            p == PyIndex(g.players, service.owner_id)
        IN  IF p = 0
            THEN \* IndexError, caught by the except clause
                 [g EXCEPT !.services = s1, !.ret = "False"]
            ELSE [g EXCEPT !.services = s1,
                           !.players = AppendService(g.players, p, service.id),
                           !.services_built = g.services_built + 1,
                           !.action_log = log_action(g, "build_service",
                                                     service.owner_id, service),
                           !.ret = "True"]

\* game_state.GameState.add_service
gs_add_service(g, service) ==
    LET placed == place_service(g.grid, service.location, service.id)
    IN  IF ~placed[1]
        THEN [g EXCEPT !.ret = "False"]
        ELSE
            LET s1 == DictSet(g.services, service.id, service)
                p == PyIndex(g.players, service.owner_id)
            IN  IF p = 0
                THEN \* IndexError propagates to the caller
                     [g EXCEPT !.grid = placed[2], !.services = s1,
                               !.ret = "IndexError"]
                ELSE [g EXCEPT !.grid = placed[2], !.services = s1,
                               !.players = AppendService(g.players, p, service.id),
                               !.services_built = g.services_built + 1,
                               !.ret = "True"]

add_service(g, service) ==
    IF g.engine = "adv" THEN adv_add_service(g, service)
    ELSE gs_add_service(g, service)

\* game_state.GameState.remove_service (AdvancedGameState has none)
remove_service(g, service_id) ==
    IF service_id \notin DOMAIN g.services
    THEN [g EXCEPT !.ret = "False"]
    ELSE
        LET service == g.services[service_id]
            g1 == DictPop(g.grid, service.location)
            s1 == DictPop(g.services, service_id)
            p == PyIndex(g.players, service.owner_id)
        IN  IF p = 0
            THEN [g EXCEPT !.grid = g1, !.services = s1, !.ret = "IndexError"]
            ELSE [g EXCEPT !.grid = g1, !.services = s1,
                           !.players[p].services =
                               IF InList(@, service_id)
                               THEN ListRemove(@, service_id) ELSE @,
                           !.ret = "True"]

\* game_state.GameState.next_player
next_player(g) ==
    IF Len(g.players) = 0
    THEN [g EXCEPT !.ret = "ZeroDivisionError"]
    ELSE [g EXCEPT !.current_player_index =
                       (g.current_player_index + 1) % Len(g.players),
                   !.ret = "None"]

----------------------------------------------------------------------------
(* Turn phase machine *)

\* AdvancedGameState.validate_game_state, run by pydantic after every
\* attribute assignment (validate_assignment=True)
validate_game_state(g) ==
    /\ g.current_player_index < Len(g.players)
    /\ \A i \in DOMAIN g.services : is_valid_coordinate(g.services[i].location)

\* round: Annotated[int, Field(ge=1, le=50)]
round_field_ok(r) == 1 <= r /\ r <= RoundLimit

\* mutant: the ability flag is not cleared
reset_players_keep_flag(plrs) ==
    [i \in DOMAIN plrs |->
        [plrs[i] EXCEPT !.actions_remaining = DefaultActions]]

\* the reset loop of _end_round / next_phase
reset_players(plrs) ==
    [i \in DOMAIN plrs |->
        [plrs[i] EXCEPT !.actions_remaining = DefaultActions,
                        !.character_ability_used = FALSE]]

\* mutant: the round is not advanced
adv_end_round_same_round(g) ==
    [g EXCEPT !.phase = "traffic",
              !.current_player_index = 0,
              !.players = reset_players(g.players),
              !.ret = "None"]

\* AdvancedGameState._end_round
adv_end_round(g) ==
    [g EXCEPT !.round = g.round + 1,
              !.phase = "traffic",
              !.current_player_index = 0,
              !.players = reset_players(g.players),
              !.ret = "None"]

\* AdvancedGameState.next_phase.  Every assignment to a field of the model
\* is validated (field constraints, then validate_game_state); a failed
\* validation raises and assigns nothing.
adv_next_phase(g) ==
    CASE g.phase = "setup" ->
            IF validate_game_state(g)
            THEN [g EXCEPT !.phase = "traffic", !.ret = "None"]
            ELSE [g EXCEPT !.ret = "ValidationError"]
      [] g.phase = "traffic" ->
            IF validate_game_state(g)
            THEN [g EXCEPT !.phase = "action", !.ret = "None"]
            ELSE [g EXCEPT !.ret = "ValidationError"]
      [] g.phase = "action" ->
            IF validate_game_state(g)
            THEN [g EXCEPT !.phase = "resolution", !.ret = "None"]
            ELSE [g EXCEPT !.ret = "ValidationError"]
      [] g.phase = "resolution" ->
            IF validate_game_state(g)
            THEN [g EXCEPT !.phase = "chaos", !.ret = "None"]
            ELSE [g EXCEPT !.ret = "ValidationError"]
      [] g.phase = "chaos" ->
            \* _end_round: self.round += 1 is the first assignment
            IF round_field_ok(g.round + 1) /\ validate_game_state(g)
            THEN adv_end_round(g)
            ELSE [g EXCEPT !.ret = "ValidationError"]
      [] OTHER -> [g EXCEPT !.ret = "None"]    \* case "end": pass

phase_order == <<"traffic", "action", "resolution", "chaos">>

\* phase_order.index(ph)
phase_index(ph) == CHOOSE k \in 1..Len(phase_order) : phase_order[k] = ph

\* mutant: a phase outside phase_order starts the cycle again
gs_next_phase_restart(g) ==
    IF InList(phase_order, g.phase)
    THEN IF phase_index(g.phase) = Len(phase_order)
         THEN [g EXCEPT !.round = g.round + 1,
                        !.phase = "traffic",
                        !.current_player_index = 0,
                        !.players = reset_players(g.players),
                        !.ret = "None"]
         ELSE [g EXCEPT !.phase = phase_order[phase_index(g.phase) + 1],
                        !.ret = "None"]
    ELSE [g EXCEPT !.phase = "traffic", !.ret = "None"]

\* game_state.GameState.next_phase
gs_next_phase(g) ==
    IF g.phase = "setup"
    THEN [g EXCEPT !.phase = "traffic", !.ret = "None"]
    ELSE IF InList(phase_order, g.phase)
    THEN IF phase_index(g.phase) = Len(phase_order)
         THEN [g EXCEPT !.round = g.round + 1,
                        !.phase = "traffic",
                        !.current_player_index = 0,
                        !.players = reset_players(g.players),
                        !.ret = "None"]
         ELSE [g EXCEPT !.phase = phase_order[phase_index(g.phase) + 1],
                        !.ret = "None"]
    ELSE [g EXCEPT !.ret = "None"]

next_phase(g) ==
    IF g.engine = "adv" THEN adv_next_phase(g) ELSE gs_next_phase(g)

----------------------------------------------------------------------------
(* Specification Spec: the orchestrator *)

\* A game as constructed, with players plrs and in phase ph (both are
\* constructor fields), beside the Service object s of the service
\* specification.
InitGame(e, plrs, ph, s) ==
    /\ engine = e
    /\ phase = ph
    /\ round = 1
    /\ players = plrs
    /\ services = EmptyMap
    /\ grid = EmptyMap
    /\ current_player_index = 0
    /\ services_built = 0
    /\ action_log = <<>>
    /\ entropy = 0
    /\ metrics = NewMetrics
    /\ hashes = EmptyMap
    /\ svc = s
    /\ op = "init"
    /\ arg = 0
    /\ ret = "None"
    /\ calls = 0
    /\ phase0 = ph
    /\ run2 = EmptyMap

\* AdvancedGameState's validator rejects a game whose current_player_index
\* (0) is not below len(players), so an advanced game is constructed with its
\* players; a GameState starts with none and has them appended.
Init ==
    \E e \in Engines, n \in 0..MaxPlayers :
        /\ e = "adv" => n >= 1
        /\ e = "gs" => n = 0
        /\ InitGame(e, [i \in 1..n |-> NewPlayer(i - 1)], "setup", EmptyMap)

\* game_state.players.append(player) of create_initial_game_state
AddPlayer ==
    /\ engine = "gs"
    /\ Len(players) < MaxPlayers
    /\ players' = Append(players, NewPlayer(Len(players)))
    /\ op' = "add_player"
    /\ arg' = Len(players)
    /\ ret' = "None"
    /\ UNCHANGED <<engine, phase, round, services, grid, current_player_index,
                   services_built, action_log, entropy, metrics, hashes, svc,
                   calls, phase0, run2>>

AddService(id, loc, owner) ==
    /\ services_built < MaxBuilt
    /\ Install(add_service(Game, NewService(id, loc, owner)))
    /\ op' = "add_service"
    /\ arg' = loc
    /\ UNCHANGED <<hashes, svc, calls, phase0, run2>>

RemoveService(id) ==
    /\ engine = "gs"
    /\ Install(remove_service(Game, id))
    /\ op' = "remove_service"
    /\ arg' = id
    /\ UNCHANGED <<hashes, svc, calls, phase0, run2>>

NextPlayer ==
    /\ engine = "gs"
    /\ Install(next_player(Game))
    /\ op' = "next_player"
    /\ arg' = 0
    /\ UNCHANGED <<hashes, svc, calls, phase0, run2>>

\* one next_phase() call
StepNextPhase ==
    /\ Install(next_phase(Game))
    /\ op' = "next_phase"
    /\ arg' = 0
    /\ calls' = calls + 1
    /\ UNCHANGED <<hashes, svc, phase0, run2>>

NextPhase ==
    /\ ~(phase = "chaos" /\ round >= MaxRound)
    /\ StepNextPhase

Next ==
    \/ AddPlayer
    \/ \E id \in Ids, loc \in InputLocations, owner \in InputOwners :
           AddService(id, loc, owner)
    \/ \E id \in Ids : RemoveService(id)
    \/ NextPlayer
    \/ NextPhase

Spec == Init /\ [][Next]_vars

----------------------------------------------------------------------------
(* Specification SpecPhase: the turn phase machine *)

\* actions_remaining values players are constructed with
ActionInputs == {0, DefaultActions, MaxActions}

\* A game constructed in phase Setup or End with n players, each built with
\* its own actions_remaining and character_ability_used.
InitPhase ==
    \E e \in Engines, n \in 1..MaxPlayers, ph \in {"setup", "end"} :
      \E acts \in [1..n -> ActionInputs], used \in [1..n -> BOOLEAN] :
        InitGame(e,
                 [i \in 1..n |->
                     [NewPlayer(i - 1) EXCEPT
                         !.actions_remaining = acts[i],
                         !.character_ability_used = used[i]]],
                 ph, EmptyMap)

PhaseNextPhase ==
    /\ calls < MaxCalls
    /\ StepNextPhase

NextOfPhase ==
    \/ PhaseNextPhase
    \/ NextPlayer

SpecPhase == InitPhase /\ [][NextOfPhase]_vars

----------------------------------------------------------------------------
(* Resource economy *)

ServiceTypes ==
    {"compute", "database", "cache", "queue", "load_balancer", "api_gateway"}

\* ServiceType.costs / ServiceCosts.get_costs
costs(t) ==
    CASE t = "compute" -> [cpu |-> 2, memory |-> 2, storage |-> 1, capacity |-> 5]
      [] t = "database" -> [cpu |-> 1, memory |-> 2, storage |-> 3, capacity |-> 3]
      [] t = "cache" -> [cpu |-> 1, memory |-> 3, storage |-> 1, capacity |-> 8]
      [] t = "queue" -> [cpu |-> 1, memory |-> 1, storage |-> 2, capacity |-> 6]
      [] t = "load_balancer" ->
            [cpu |-> 2, memory |-> 1, storage |-> 1, capacity |-> 10]
      [] t = "api_gateway" -> [cpu |-> 1, memory |-> 1, storage |-> 1, capacity |-> 7]

\* mutant: only the cpu dimension is compared
can_afford_cpu_only(pool, c) == pool.cpu >= c.cpu

\* PlayerResources.can_afford / Player.can_afford
can_afford(pool, c) ==
    /\ pool.cpu >= c.cpu
    /\ pool.memory >= c.memory
    /\ pool.storage >= c.storage

\* PlayerResources field constraint, checked on every assignment
resource_field_ok(v) == 0 <= v /\ v <= ResourceLimit

\* PlayerResources.spend: three validated assignments in a row; a failed
\* validation raises and leaves the earlier assignments in place
adv_spend(pool, c) ==
    IF ~can_afford(pool, c)
    THEN [pool |-> pool, ret |-> "False"]
    ELSE
        LET p1 == [pool EXCEPT !.cpu = pool.cpu - c.cpu]
            p2 == [p1 EXCEPT !.memory = pool.memory - c.memory]
            p3 == [p2 EXCEPT !.storage = pool.storage - c.storage]
        IN  IF ~resource_field_ok(p1.cpu)
            THEN [pool |-> pool, ret |-> "ValidationError"]
            ELSE IF ~resource_field_ok(p2.memory)
            THEN [pool |-> p1, ret |-> "ValidationError"]
            ELSE IF ~resource_field_ok(p3.storage)
            THEN [pool |-> p2, ret |-> "ValidationError"]
            ELSE [pool |-> p3, ret |-> "True"]

\* game_state.Player.spend_resources
gs_spend_resources(pool, c) ==
    IF can_afford(pool, c)
    THEN [pool |-> [pool EXCEPT !.cpu = pool.cpu - c.cpu,
                                !.memory = pool.memory - c.memory,
                                !.storage = pool.storage - c.storage],
          ret |-> "True"]
    ELSE [pool |-> pool, ret |-> "False"]

spend(e, pool, c) ==
    IF e = "adv" THEN adv_spend(pool, c) ELSE gs_spend_resources(pool, c)

----------------------------------------------------------------------------
(* Specification SpecSpend: one player's resource pool *)

Pools == [cpu : 0..MaxPool, memory : 0..MaxPool, storage : 0..MaxPool]

\* cost records callers pass
CostInputs == [cpu : 0..MaxCost, memory : 0..MaxCost, storage : 0..MaxCost]

InitSpend ==
    \E e \in Engines, pool \in Pools :
        InitGame(e, <<[NewPlayer(0) EXCEPT !.resources = pool]>>, "setup",
                 EmptyMap)

\* players[i].resources.spend(costs) / players[i].spend_resources(costs)
Spend(i, c) ==
    /\ i \in 1..Len(players)
    /\ LET r == spend(engine, players[i].resources, c)
       IN  /\ players' = [players EXCEPT ![i].resources = r.pool]
           /\ ret' = r.ret
    /\ op' = "spend"
    /\ arg' = c
    /\ UNCHANGED <<engine, phase, round, services, grid, current_player_index,
                   services_built, action_log, entropy, metrics, hashes, svc,
                   calls, phase0, run2>>

NextSpend == \E c \in CostInputs : Spend(1, c)

SpecSpend == InitSpend /\ [][NextSpend]_vars

----------------------------------------------------------------------------
(* Service load *)

\* advanced Service.max_capacity
max_capacity(s) == costs(s.service_type).capacity + (s.upgrades * 2)

Max(a, b) == IF a >= b THEN a ELSE b

\* advanced Service.available_capacity
available_capacity(s) ==
    Max(0, max_capacity(s) - s.current_load - (s.bugs * 1))

\* advanced Service.can_handle_load
adv_can_handle_load(s, load) == available_capacity(s) >= load

\* advanced Service.add_load.  The class is an attrs.define class: the
\* ge(0) validator of current_load runs on the assignment and raises
\* ValueError before the field is set.
adv_add_load(s, load) ==
    IF adv_can_handle_load(s, load)
    THEN IF s.current_load + load >= 0
         THEN [svc |-> [s EXCEPT !.current_load = s.current_load + load],
               ret |-> "True"]
         ELSE [svc |-> s, ret |-> "ValueError"]
    ELSE [svc |-> s, ret |-> "False"]

\* game_state Service.can_handle_load
gs_can_handle_load(s, load) == s.current_capacity >= load

\* game_state Service.add_load
gs_add_load(s, load) ==
    IF gs_can_handle_load(s, load)
    THEN [svc |-> [s EXCEPT !.current_capacity = s.current_capacity - load],
          ret |-> "True"]
    ELSE [svc |-> s, ret |-> "False"]

add_load(e, s, load) ==
    IF e = "adv" THEN adv_add_load(s, load) ELSE gs_add_load(s, load)

----------------------------------------------------------------------------
(* Specification SpecLoad: one Service object *)

\* An advanced Service is built from its type and any non-negative
\* current_load, bugs and upgrades; a game_state Service from any
\* current_capacity up to the max_capacity of its type.
InitLoad ==
    \E e \in Engines, t \in ServiceTypes,
       b \in 0..MaxBugs, u \in 0..MaxUpgrades :
        IF e = "adv"
        THEN \E l \in 0..MaxLoad :
                InitGame(e, <<NewPlayer(0)>>, "setup",
                         [service_type |-> t, current_load |-> l,
                          bugs |-> b, upgrades |-> u])
        ELSE \E c \in 0..costs(t).capacity :
                InitGame(e, <<NewPlayer(0)>>, "setup",
                         [service_type |-> t, current_capacity |-> c,
                          max_capacity |-> costs(t).capacity,
                          bugs |-> b, upgrades |-> u])

LoadInputs == (-MaxLoadArg)..MaxLoadArg

AddLoad(n) ==
    /\ engine = "gs" => svc.current_capacity - n <= MaxRemaining
    /\ LET r == add_load(engine, svc, n)
       IN  /\ svc' = r.svc
           /\ ret' = r.ret
    /\ op' = "add_load"
    /\ arg' = n
    /\ UNCHANGED <<engine, phase, round, players, services, grid,
                   current_player_index, services_built, action_log, entropy,
                   metrics, hashes, calls, phase0, run2>>

NextLoad == \E n \in LoadInputs : AddLoad(n)

SpecLoad == InitLoad /\ [][NextLoad]_vars

----------------------------------------------------------------------------
(* Claims about the orchestrator (checked under Spec) *)

\* The claims' own reading of "inside the grid", "occupied" and "valid owner"
InBounds(loc) ==
    loc[1] >= 0 /\ loc[1] < grid_height /\ loc[2] >= 0 /\ loc[2] < grid_width

OccupiedByService(loc) == \E i \in DOMAIN services : services[i].location = loc

ValidOwner(owner) == owner >= 0 /\ owner < Len(players)

\* Everything of the game but the call's return value
GameUnchanged ==
    UNCHANGED <<engine, phase, round, players, services, grid,
                current_player_index, services_built, action_log, entropy,
                metrics>>

\* C1: no two services in the service map have the same location, after any
\* sequence of add_service and remove_service calls.
C1_UniqueLocations ==
    \A i, j \in DOMAIN services :
        i # j => services[i].location # services[j].location

\* Two services are held at once, the second one just added.
C1_Witness ==
    /\ Cardinality(DOMAIN services) = 2
    /\ op = "add_service"
    /\ ret = "True"

\* C2: add_service at a location outside the grid or occupied by a service
\* returns False and changes nothing of the game.
C2_FailedAddNoMutation ==
    [][ (/\ op' = "add_service"
         /\ ~InBounds(arg') \/ OccupiedByService(arg'))
            => (ret' = "False" /\ GameUnchanged) ]_vars

\* add_service has just returned False for a location that is out of bounds,
\* after one service was built.
C2_Witness ==
    /\ op = "add_service"
    /\ ret = "False"
    /\ ~InBounds(arg)
    /\ services_built = 1

\* C3: add_service with an owner_id that is no valid player index, at a free
\* in-bounds location, is reported as a failure and changes nothing.
C3_InvalidOwnerRejected ==
    [][ (op' = "add_service" /\ InBounds(arg') /\ ~OccupiedByService(arg'))
            => \A id \in Ids, owner \in InputOwners :
                  (~ValidOwner(owner) /\ AddService(id, arg', owner))
                      => (ret' \in {"False", "IndexError"} /\ GameUnchanged) ]_vars

\* C4: in every reachable state current_player_index < len(players), every
\* service's owner_id is a valid player index and every service is inside
\* the grid.
C4_StateInvariants ==
    /\ current_player_index < Len(players)
    /\ \A i \in DOMAIN services :
          /\ ValidOwner(services[i].owner_id)
          /\ InBounds(services[i].location)

\* C5: a successful AdvancedGameState.add_service (in-bounds free location,
\* valid owner) returns True, puts the service in the map under its id,
\* appends its id once to the owner's list only, adds 1 to services_built,
\* appends one build_service log entry, and leaves round, phase, entropy and
\* every player's resources alone.
C5_AddServiceEffects ==
    [][ (/\ engine = "adv"
         /\ op' = "add_service"
         /\ InBounds(arg') /\ ~OccupiedByService(arg'))
            =>
        \A id \in Ids, owner \in InputOwners :
          (ValidOwner(owner) /\ AddService(id, arg', owner))
              =>
          (/\ ret' = "True"
           /\ DOMAIN services' = DOMAIN services \cup {id}
           /\ services'[id] = NewService(id, arg', owner)
           /\ \A i \in DOMAIN services \ {id} : services'[i] = services[i]
           /\ Len(players') = Len(players)
           /\ players'[owner + 1].services =
                  Append(players[owner + 1].services, id)
           /\ \A k \in 1..Len(players) :
                  /\ k # owner + 1 => players'[k].services = players[k].services
                  /\ players'[k].resources = players[k].resources
                  /\ players'[k].actions_remaining = players[k].actions_remaining
           /\ services_built' = services_built + 1
           /\ Len(action_log') = Len(action_log) + 1
           /\ SubSeq(action_log', 1, Len(action_log)) = action_log
           /\ action_log'[Len(action_log')].action_type = "build_service"
           /\ action_log'[Len(action_log')].player_id = owner
           /\ round' = round /\ phase' = phase /\ entropy' = entropy
           /\ current_player_index' = current_player_index) ]_vars

\* An advanced game whose second successful add_service has just returned.
C5_Witness ==
    /\ engine = "adv"
    /\ op = "add_service"
    /\ ret = "True"
    /\ services_built = 2
    /\ Len(action_log) = 2
    /\ action_log[2].action_type = "build_service"

----------------------------------------------------------------------------
(* Claims about the phase machine (checked under SpecPhase) *)

CycleOfPhases == <<"traffic", "action", "resolution", "chaos">>

\* the k-th phase of Traffic, Action, Resolution, Chaos, Traffic, ...
PhaseAt(k) == CycleOfPhases[((k - 1) % 4) + 1]

\* 1 + floor((k - 1) / 4)
RoundAt(k) == 1 + ((k - 1) \div 4)

\* C6 as stated: from Setup with round 1, after k >= 1 next_phase() calls the
\* phase is the k-th of the cycle and round = 1 + floor((k-1)/4), for every k.
C6_PhaseSequence_AnyK ==
    (phase0 = "setup" /\ calls >= 1)
        => (phase = PhaseAt(calls) /\ round = RoundAt(calls))

\* C6 as amended: the same, for every k in game_state.GameState and for every
\* k whose round 1 + floor((k-1)/4) is at most 50 in AdvancedGameState.
C6_PhaseSequence ==
    (/\ phase0 = "setup"
     /\ calls >= 1
     /\ engine = "adv" => RoundAt(calls) <= RoundLimit)
        => (phase = PhaseAt(calls) /\ round = RoundAt(calls))

\* Nine calls from Setup: the second Chaos->Traffic step has just been taken.
C6_Witness ==
    /\ phase0 = "setup"
    /\ calls = 9
    /\ phase = "traffic"
    /\ round = 3

\* C7: the Chaos->Traffic step of next_phase sets every player's
\* actions_remaining to 3 and clears every ability-used flag; every other
\* next_phase step leaves the players' actions_remaining and flags, the round
\* and current_player_index as they were.
C7_ResetOnlyAtRollover ==
    [][ (calls' = calls + 1) =>
          IF phase = "chaos" /\ phase' = "traffic"
          THEN /\ Len(players') = Len(players)
               /\ \A i \in 1..Len(players') :
                     /\ players'[i].actions_remaining = 3
                     /\ players'[i].character_ability_used = FALSE
          ELSE /\ phase # "chaos" =>
                     /\ Len(players') = Len(players)
                     /\ \A i \in 1..Len(players) :
                           /\ players'[i].actions_remaining =
                                  players[i].actions_remaining
                           /\ players'[i].character_ability_used =
                                  players[i].character_ability_used
                     /\ round' = round
                     /\ current_player_index' = current_player_index ]_vars

\* The first Chaos->Traffic step has just been taken and every player is
\* back at 3 actions with the flag cleared.
C7_Witness ==
    /\ op = "next_phase"
    /\ phase0 = "setup"
    /\ calls = 5
    /\ phase = "traffic"
    /\ round = 2
    /\ Len(players) = 2
    /\ \A i \in 1..Len(players) :
          /\ players[i].actions_remaining = 3
          /\ players[i].character_ability_used = FALSE

\* C8: no step moves the game into End, and a next_phase() call in End
\* leaves phase, round and the players unchanged.
C8_EndIsTerminal ==
    [][ /\ phase' = "end" => phase = "end"
        /\ (phase = "end" /\ calls' = calls + 1) =>
              /\ phase' = "end"
              /\ round' = round
              /\ players' = players
              /\ current_player_index' = current_player_index ]_vars

\* next_phase() has been called three times on a game that is in End.
C8_Witness ==
    /\ phase0 = "end"
    /\ phase = "end"
    /\ op = "next_phase"
    /\ calls = 3
    /\ round = 1

----------------------------------------------------------------------------
(* Claims about the resource pool (checked under SpecSpend) *)

\* C9: spend(costs) returns True exactly when the pool covers costs in cpu,
\* memory and storage, and then each dimension drops by exactly its cost;
\* otherwise it returns False and the pool is unchanged.  No dimension is
\* ever negative.
C9_SpendAtomic ==
    [][ (op' = "spend") =>
          LET c == arg'
              p == players[1].resources
              q == players'[1].resources
          IN  /\ IF p.cpu >= c.cpu /\ p.memory >= c.memory
                       /\ p.storage >= c.storage
                 THEN /\ ret' = "True"
                      /\ q.cpu = p.cpu - c.cpu
                      /\ q.memory = p.memory - c.memory
                      /\ q.storage = p.storage - c.storage
                 ELSE /\ ret' = "False"
                      /\ q = p
              /\ q.cpu >= 0 /\ q.memory >= 0 /\ q.storage >= 0 ]_vars

\* spend has just returned False for a cost the pool covers in cpu but not
\* in memory.
C9_Witness ==
    /\ op = "spend"
    /\ ret = "False"
    /\ arg.cpu >= 1
    /\ players[1].resources.cpu >= arg.cpu
    /\ players[1].resources.memory < arg.memory

----------------------------------------------------------------------------
(* Claims about service load (checked under SpecLoad) *)

\* C10: add_load(n) returns True and raises current_load by exactly n if and
\* only if max(0, max_capacity - current_load - bugs) >= n; otherwise it
\* returns False and current_load, bugs and upgrades are unchanged.  (In the
\* game_state engine, which stores the remaining capacity: True and
\* current_capacity drops by n iff current_capacity >= n.)
C10_AddLoadIffCanHandle ==
    [][ (op' = "add_load") =>
          LET n == arg'
          IN  IF engine = "adv"
              THEN IF Max(0, costs(svc.service_type).capacity + 2 * svc.upgrades
                              - svc.current_load - svc.bugs) >= n
                   THEN /\ ret' = "True"
                        /\ svc' = [svc EXCEPT !.current_load = svc.current_load + n]
                   ELSE /\ ret' = "False"
                        /\ svc' = svc
              ELSE IF svc.current_capacity >= n
                   THEN /\ ret' = "True"
                        /\ svc' = [svc EXCEPT
                                      !.current_capacity = svc.current_capacity - n]
                   ELSE /\ ret' = "False"
                        /\ svc' = svc ]_vars

\* C11: after an add_load(n) call that returns True, for any integer n and
\* any service, current_load + bugs <= base_capacity(type) + 2 * upgrades
\* (game_state engine: 0 <= current_capacity <= max_capacity).
C11_LoadWithinCapacity ==
    [][ (op' = "add_load" /\ ret' = "True") =>
          IF engine = "adv"
          THEN svc'.current_load + svc'.bugs
                  <= costs(svc'.service_type).capacity + 2 * svc'.upgrades
          ELSE 0 <= svc'.current_capacity
               /\ svc'.current_capacity <= svc'.max_capacity ]_vars

----------------------------------------------------------------------------
(* The simulation loop of advanced_game_state.py and its phase handlers *)

Min(a, b) == IF a <= b THEN a ELSE b

\* PlayerResources.total_resources
total_resources(pool) == pool.cpu + pool.memory + pool.storage

RECURSIVE SumServices(_, _)
\* sum of len(player.services) * 2 over players[i..]
SumServices(plrs, i) ==
    IF i > Len(plrs) THEN 0
    ELSE Len(plrs[i].services) * 2 + SumServices(plrs, i + 1)

\* a traffic handler that takes the requests off the total
handle_traffic_phase_subtract(g) ==
    [g EXCEPT !.metrics.total_requests = @ - SumServices(g.players, 1)]

\* handle_traffic_phase
handle_traffic_phase(g) ==
    [g EXCEPT !.metrics.total_requests = @ + SumServices(g.players, 1)]

\* itertools.product(range(grid_height), range(grid_width)): position of a
\* cell in the row-major scan
ScanIndex(coord) == coord[1] * grid_width + coord[2]

AllCells == (0..(grid_height - 1)) \X (0..(grid_width - 1))

\* the cells the scan finds not in service_grid
EmptyCells(g) == {c \in AllCells : c \notin DOMAIN service_grid(g.services)}

FirstEmptyCell(g) ==
    CHOOSE c \in EmptyCells(g) :
        \A d \in EmptyCells(g) : ScanIndex(c) <= ScanIndex(d)

RECURSIVE player_actions(_, _, _)
\* handle_action_phase, the while loop of player number i (1-based position
\* in players); uuids are the ids uuid4() hands out next.  The for loop
\* leaves without a break when no cell is free or spend() fails on every
\* free cell, and the while loop then repeats with nothing changed: the
\* call does not return ("Hang").
player_actions(g, i, uuids) ==
    LET player == g.players[i]
    IN  IF player.actions_remaining > 0
        THEN IF total_resources(player.resources) >= 4
             THEN IF EmptyCells(g) # {}
                     /\ can_afford(player.resources, costs("compute"))
                  THEN LET paid == adv_spend(player.resources, costs("compute"))
                           g1 == [g EXCEPT !.players[i].resources = paid.pool]
                           g2 == adv_add_service(g1,
                                    NewService(Head(uuids), FirstEmptyCell(g),
                                               player.id))
                           g3 == [g2 EXCEPT !.players[i].actions_remaining =
                                                @ - 1]
                       IN  player_actions(g3, i, Tail(uuids))
                  ELSE [game |-> [g EXCEPT !.ret = "Hang"], uuids |-> uuids]
             ELSE [game |-> g, uuids |-> uuids]
        ELSE [game |-> g, uuids |-> uuids]

RECURSIVE handle_action_from(_, _, _)
\* handle_action_phase, the for loop over players from position i on
handle_action_from(g, i, uuids) ==
    IF i > Len(g.players) THEN g
    ELSE LET r == player_actions(g, i, uuids)
         IN  IF r.game.ret = "Hang" THEN r.game
             ELSE handle_action_from(r.game, i + 1, r.uuids)

\* handle_action_phase
handle_action_phase(g, uuids) == handle_action_from(g, 1, uuids)

\* deque(maxlen=50).append
DequeAppend(q, x) ==
    IF Len(q) < HistoryLen THEN Append(q, x) ELSE Append(Tail(q), x)

\* Player.record_uptime
record_uptime(player, uptime) ==
    [player EXCEPT !.current_uptime = uptime,
                   !.uptime_history = DequeAppend(@, uptime)]

\* handle_resolution_phase; h is hash(str(game.round))
handle_resolution_phase(g, h) ==
    [g EXCEPT !.players =
        [i \in 1..Len(g.players) |->
            IF g.players[i].services # <<>>
            THEN LET base_uptime == Min(100, Len(g.players[i].services) * 20)
                     noise == (h % 20) - 10
                 IN  record_uptime(g.players[i], Max(0, base_uptime + noise))
            ELSE g.players[i]]]

\* handle_chaos_phase; h is hash(str(game.round * game.entropy)).  The
\* assignment to entropy is validated (field range, then the model
\* validator).
entropy_field_ok(e) == 0 <= e /\ e <= EntropyLimit

chaos_roll(h) == (h % 8) + 1

\* mutant: the event is counted whatever the entropy
handle_chaos_phase_count_all(g, h) ==
    LET g1 == [g EXCEPT
                 !.metrics.cascade_failures =
                     IF chaos_roll(h) \in {7, 8} THEN @ + 1 ELSE @,
                 !.metrics.chaos_events = @ + 1]
        e1 == Min(EntropyCap, g.entropy + 1)
    IN  [g1 EXCEPT !.entropy = e1]

handle_chaos_phase(g, h) ==
    LET g1 == IF g.entropy > 3
              THEN [g EXCEPT
                      !.metrics.cascade_failures =
                          IF chaos_roll(h) \in {7, 8} THEN @ + 1 ELSE @,
                      !.metrics.chaos_events = @ + 1]
              ELSE g
        e1 == Min(EntropyCap, g.entropy + 1)
    IN  IF entropy_field_ok(e1) /\ validate_game_state(g1)
        THEN [g1 EXCEPT !.entropy = e1]
        ELSE [g1 EXCEPT !.ret = "ValidationError"]

\* AdvancedGameState.is_game_over
adv_is_game_over(g) ==
    \/ g.round > GameOverRound
    \/ \A i \in 1..Len(g.players) : g.players[i].current_uptime <= 0
    \/ g.phase = "end"

\* the string whose hash a phase handler takes, as the integer it prints
HashKey(g) ==
    IF g.phase = "resolution" THEN g.round ELSE g.round * g.entropy

\* whether the handler of the phase calls hash() at all
UsesHash(g) ==
    \/ g.phase = "chaos" /\ g.entropy > 3
    \/ g.phase = "resolution"
       /\ \E i \in 1..Len(g.players) : g.players[i].services # <<>>

\* one iteration of the loop of simulate_game_async: the handler of the
\* current phase, then next_phase()
loop_body(g, h, uuids) ==
    LET g1 == CASE g.phase = "traffic" -> handle_traffic_phase(g)
                [] g.phase = "action" -> handle_action_phase(g, uuids)
                [] g.phase = "resolution" -> handle_resolution_phase(g, h)
                [] g.phase = "chaos" -> handle_chaos_phase(g, h)
                [] OTHER -> g
    IN  IF g1.ret \in {"Hang", "ValidationError"} THEN g1
        ELSE adv_next_phase(g1)

----------------------------------------------------------------------------
(* Specification SpecSim: the game loop of simulate_game_async *)

\* resource pools the players start with: one that cannot pay for anything
\* (total below 4) and the default pool
SimPools ==
    { [cpu |-> 1, memory |-> 1, storage |-> 1],
      [cpu |-> DefaultResource, memory |-> DefaultResource,
       storage |-> DefaultResource] }

\* values of hash(s) % 40 the process may produce; they give the chaos rolls
\* 6, 7 and 8
HashInputs == {5, 6, 7}

UuidLen == MaxPlayers * MaxActions

\* orders in which uuid4() may hand out ids
UuidInputs ==
    { [k \in 1..UuidLen |-> k], [k \in 1..UuidLen |-> UuidLen + 1 - k] }

HandlerName(ph) ==
    CASE ph = "traffic" -> "handle_traffic_phase"
      [] ph = "action" -> "handle_action_phase"
      [] ph = "resolution" -> "handle_resolution_phase"
      [] ph = "chaos" -> "handle_chaos_phase"
      [] OTHER -> "next_phase"

InitSim ==
    \E n \in 1..MaxPlayers :
        \E pools \in [1..n -> SimPools] :
            InitGame("adv",
                     [i \in 1..n |->
                        [NewPlayer(i - 1) EXCEPT !.resources = pools[i]]],
                     "setup", EmptyMap)

\* while not game.is_game_over(): the loop runs on (rounds beyond MaxSimRound
\* are not explored; a call that hung or raised never returns to the loop)
Running(g) ==
    /\ g.round <= MaxSimRound
    /\ g.ret \notin {"Hang", "ValidationError"}
    /\ ~adv_is_game_over(g)

\* h is what hash() gives the handler of g's phase in a process that has
\* computed the hashes hs: the same string hashes to the same value
HashOk(g, hs, h) ==
    IF UsesHash(g)
    THEN HashKey(g) \in DOMAIN hs => h = hs[HashKey(g)]
    ELSE h = CHOOSE x \in HashInputs : TRUE

HashesAfter(g, hs, h) ==
    IF UsesHash(g) THEN DictSet(hs, HashKey(g), h) ELSE hs

\* the ids uuid4() hands out in round g.round, in the order uuids: every
\* round draws from numbers of its own
FreshUuids(g, uuids) == [k \in 1..Len(uuids) |-> UuidLen * g.round + uuids[k]]

\* uuids is an order in which uuid4() may hand out ids to the handler of g's
\* phase: none of the ids is in use
UuidsOk(g, uuids) ==
    IF g.phase = "action"
    THEN \A k \in 1..Len(uuids) :
            FreshUuids(g, uuids)[k] \notin DOMAIN g.services
    ELSE uuids = CHOOSE u \in UuidInputs : TRUE

\* one iteration of the loop
LoopIteration(h, uuids) ==
    /\ Running(Game)
    /\ HashOk(Game, hashes, h)
    /\ UuidsOk(Game, uuids)
    /\ hashes' = HashesAfter(Game, hashes, h)
    /\ LET g == loop_body(Game, h, FreshUuids(Game, uuids))
       IN  /\ Install(g)
           /\ calls' = IF g.ret = "Hang" THEN calls ELSE calls + 1
    /\ op' = HandlerName(phase)
    /\ arg' = IF UsesHash(Game) THEN h ELSE 0
    /\ UNCHANGED <<svc, phase0, run2>>

NextSim == \E h \in HashInputs, uuids \in UuidInputs : LoopIteration(h, uuids)

SpecSim == InitSim /\ [][NextSim]_vars

\* number of Chaos phases completed
ChaosPhases == round - 1

\* C12: each Chaos phase ends with entropy = min(20, entropy + 1), event or
\* not; from entropy 0, after k Chaos phases entropy = min(20, k).
C12_EntropyTick ==
    [][ (op' = "handle_chaos_phase") =>
          /\ entropy' = Min(20, entropy + 1)
          /\ entropy' = Min(20, ChaosPhases') ]_vars

\* C13: in each Chaos phase chaos_events grows by exactly 1 if entropy > 3
\* at the start of the phase and is unchanged otherwise; cascade_failures
\* grows by exactly 1 only when an event is triggered and its roll is 7 or 8;
\* so cascade_failures <= chaos_events, and no event is counted during the
\* first four Chaos phases of a game.
C13_ChaosCounters ==
    [][ (op' = "handle_chaos_phase") =>
          LET triggered == entropy > 3
              roll == (arg' % 8) + 1
          IN  /\ metrics'.chaos_events =
                    metrics.chaos_events + (IF triggered THEN 1 ELSE 0)
              /\ metrics'.cascade_failures =
                    metrics.cascade_failures
                    + (IF triggered /\ roll \in {7, 8} THEN 1 ELSE 0)
              /\ metrics'.total_requests = metrics.total_requests
              /\ metrics'.cascade_failures <= metrics'.chaos_events
              /\ (ChaosPhases' <= 4 => metrics'.chaos_events = 0) ]_vars

\* a Chaos phase with a roll of 6 after one that counted a cascade failure
C13_Witness ==
    /\ op = "handle_chaos_phase"
    /\ arg = 5
    /\ metrics.cascade_failures >= 1
    /\ metrics.chaos_events > metrics.cascade_failures

----------------------------------------------------------------------------
(* Victory evaluation *)

RECURSIVE SeqSum(_)
SeqSum(s) == IF s = <<>> THEN 0 ELSE Head(s) + SeqSum(Tail(s))

\* advanced Player.average_uptime, a cached_property: the value of the first
\* read is kept.  Values are fractions <<numerator, denominator>>.
average_uptime(player) ==
    IF player.average_uptime # <<>> THEN player.average_uptime[1]
    ELSE IF player.uptime_history = <<>> THEN <<player.current_uptime, 1>>
    ELSE <<SeqSum(player.uptime_history), Len(player.uptime_history)>>

\* the player after a read of average_uptime
ReadAverage(player) ==
    [player EXCEPT !.average_uptime = <<average_uptime(player)>>]

\* advanced Player.performance_score, as a fraction:
\* uptime * count + 0.1 * average + 0.05 * total_resources
performance_score(player) ==
    IF Len(player.services) = 0 THEN <<0, 1>>
    ELSE LET a == average_uptime(player)
         IN  << 20 * a[2] * player.current_uptime * Len(player.services)
                  + 2 * a[1] + a[2] * total_resources(player.resources),
                20 * a[2] >>

\* the player after performance_score was evaluated on it
ReadScore(player) ==
    IF Len(player.services) = 0 THEN player ELSE ReadAverage(player)

FracLess(a, b) == a[1] * b[2] < b[1] * a[2]

\* max(seq, key=...) / the "score > best_score" scan: the position of the
\* first element whose key no other exceeds
FirstMax(keys) ==
    CHOOSE i \in 1..Len(keys) :
        /\ \A j \in 1..Len(keys) : ~FracLess(keys[i], keys[j])
        /\ \A j \in 1..(i - 1) : FracLess(keys[j], keys[i])

\* game_state GameState.is_game_over
gs_is_game_over(g) ==
    \/ g.round > GameOverRound
    \/ \A i \in 1..Len(g.players) : g.players[i].current_uptime <= 0

is_game_over(g) ==
    IF g.engine = "adv" THEN adv_is_game_over(g) ELSE gs_is_game_over(g)

\* AdvancedGameState.get_winner: the position of the player returned in
\* field winner (0 with ret "None")
adv_get_winner(g) ==
    IF ~adv_is_game_over(g)
    THEN [game |-> g, ret |-> "None", winner |-> 0]
    ELSE IF g.players = <<>>
    THEN [game |-> g, ret |-> "None", winner |-> 0]
    ELSE [game |-> [g EXCEPT !.players =
                       [i \in 1..Len(g.players) |-> ReadScore(g.players[i])]],
          ret |-> "Player",
          winner |-> FirstMax([i \in 1..Len(g.players) |->
                                  performance_score(g.players[i])])]

\* the score of game_state get_winner
gs_score(player) == <<player.current_uptime * Len(player.services), 1>>

\* game_state GameState.get_winner
gs_get_winner(g) ==
    IF ~gs_is_game_over(g)
    THEN [game |-> g, ret |-> "None", winner |-> 0]
    ELSE IF g.round >= CoopRound /\ g.players = <<>>
    THEN [game |-> g, ret |-> "ZeroDivisionError", winner |-> 0]
    ELSE IF g.round >= CoopRound
            /\ SeqSum([i \in 1..Len(g.players) |-> g.players[i].current_uptime])
                  > CoopUptime * Len(g.players)
    THEN [game |-> g, ret |-> "None", winner |-> 0]
    ELSE LET keys == [i \in 1..Len(g.players) |-> gs_score(g.players[i])]
         IN  IF g.players = <<>> \/ ~FracLess(<<-1, 1>>, keys[FirstMax(keys)])
             THEN [game |-> g, ret |-> "None", winner |-> 0]
             ELSE [game |-> g, ret |-> "Player", winner |-> FirstMax(keys)]

get_winner(g) ==
    IF g.engine = "adv" THEN adv_get_winner(g) ELSE gs_get_winner(g)

----------------------------------------------------------------------------
(* Specification SpecVictory: is_game_over / get_winner on constructed games *)

UptimeInputs == {0, 80, 85}
RoundInputs == {1, 10, 21}
PhaseInputs == {"chaos", "end"}
HistoryInputs == {<<>>, <<50>>}
VictoryPools ==
    { [cpu |-> 0, memory |-> 0, storage |-> 0],
      [cpu |-> DefaultResource, memory |-> DefaultResource,
       storage |-> DefaultResource] }

\* what a driver sets on one player: uptime, number of services owned,
\* resources, uptime history
PlayerInputs ==
    [ uptime : UptimeInputs, owned : 0..MaxOwned, pool : VictoryPools,
      history : HistoryInputs ]

\* player number i (1-based position) built from input x; its services have
\* the ids 10 * i + 1 ..
VictoryPlayer(i, x) ==
    [NewPlayer(i - 1) EXCEPT
        !.current_uptime = x.uptime,
        !.services = [k \in 1..x.owned |-> 10 * i + k],
        !.resources = x.pool,
        !.uptime_history = x.history]

\* the service map holding the players' services, one row per player
VictoryServices(xs) ==
    LET ids == UNION {{10 * i + k : k \in 1..xs[i].owned} : i \in 1..Len(xs)}
    IN  [id \in ids |->
            NewService(id, <<(id \div 10) - 1, (id % 10) - 1>>, (id \div 10) - 1)]

InitVictory ==
    \E e \in Engines, n \in 0..MaxPlayers, r \in RoundInputs, ph \in PhaseInputs :
        /\ e = "adv" => n >= 1
        /\ \E xs \in [1..n -> PlayerInputs] :
            /\ engine = e
            /\ phase = ph
            /\ round = r
            /\ players = [i \in 1..n |-> VictoryPlayer(i, xs[i])]
            /\ services = VictoryServices(xs)
            /\ grid = IF e = "gs"
                      THEN service_grid(VictoryServices(xs)) ELSE EmptyMap
            /\ current_player_index = 0
            /\ services_built = 0
            /\ action_log = <<>>
            /\ entropy = 0
            /\ metrics = NewMetrics
            /\ hashes = EmptyMap
            /\ svc = EmptyMap
            /\ op = "init"
            /\ arg = 0
            /\ ret = "None"
            /\ calls = 0
            /\ phase0 = ph
            /\ run2 = EmptyMap

IsGameOver ==
    /\ op' = "is_game_over"
    /\ ret' = IF is_game_over(Game) THEN "True" ELSE "False"
    /\ arg' = 0
    /\ UNCHANGED <<engine, phase, round, players, services, grid,
                   current_player_index, services_built, action_log, entropy,
                   metrics, hashes, svc, calls, phase0, run2>>

GetWinner ==
    /\ LET r == get_winner(Game)
       IN  /\ players' = r.game.players
           /\ ret' = r.ret
           /\ arg' = r.winner
    /\ op' = "get_winner"
    /\ UNCHANGED <<engine, phase, round, services, grid,
                   current_player_index, services_built, action_log, entropy,
                   metrics, hashes, svc, calls, phase0, run2>>

NextVictory == IsGameOver \/ GetWinner

SpecVictory == InitVictory /\ [][NextVictory]_vars

\* C14: is_game_over() returns True exactly when round > 20, or every player
\* has current_uptime <= 0, or phase is End; otherwise False.
C14_GameOverConditions ==
    [][ (op' = "is_game_over") =>
          (ret' = "True" <=>
              \/ round > 20
              \/ \A i \in 1..Len(players) : players[i].current_uptime <= 0
              \/ phase = "end") ]_vars

\* the mean of all players' current_uptime is strictly above 80
MeanAbove80 ==
    /\ players # <<>>
    /\ SeqSum([i \in 1..Len(players) |-> players[i].current_uptime])
          > 80 * Len(players)

\* C15: get_winner() reports a cooperative victory (no single winner)
\* whenever round >= 10 and the mean of all players' current_uptime is above
\* 80; when the mean is 80 or less, or round < 10, the outcome of a finished
\* game is a single competitive winner.
C15_CooperativeVictory ==
    [][ (op' = "get_winner" /\ players # <<>>) =>
          IF round >= 10 /\ MeanAbove80
          THEN ret' = "None"
          ELSE is_game_over(Game) => ret' = "Player" ]_vars

\* performance_score as the claim states it, as a fraction:
\* current_uptime * owned_service_count + 0.1 * average_uptime
\* + 0.05 * total_resources
StatedScore(player) ==
    LET s == IF player.uptime_history = <<>> THEN player.current_uptime
             ELSE SeqSum(player.uptime_history)
        l == IF player.uptime_history = <<>> THEN 1
             ELSE Len(player.uptime_history)
    IN  << 20 * l * player.current_uptime * Len(player.services)
             + 2 * s + l * total_resources(player.resources),
           20 * l >>

\* C16: when the game is over and the outcome is not cooperative,
\* get_winner() returns a player whose performance_score is the maximum over
\* all players, the first of them in the players list on a tie.
C16_CompetitiveWinner ==
    [][ (op' = "get_winner" /\ ret' = "Player") =>
          LET keys == [i \in 1..Len(players) |-> StatedScore(players[i])]
          IN  /\ \A j \in 1..Len(players) : ~FracLess(keys[arg'], keys[j])
              /\ \A j \in 1..(arg' - 1) : FracLess(keys[j], keys[arg']) ]_vars

----------------------------------------------------------------------------
(* Specification SpecRuns: two processes run the game loop on the same      *)
(* players; each has its own hash() values and its own uuid4() ids.         *)

InitRuns ==
    /\ \E n \in 1..MaxPlayers :
        \E pools \in [1..n -> SimPools] :
            /\ engine = "adv"
            /\ phase = "setup"
            /\ round = 1
            /\ players = [i \in 1..n |->
                            [NewPlayer(i - 1) EXCEPT !.resources = pools[i]]]
            /\ services = EmptyMap
            /\ grid = EmptyMap
            /\ current_player_index = 0
            /\ services_built = 0
            /\ action_log = <<>>
            /\ entropy = 0
            /\ metrics = NewMetrics
            /\ hashes = EmptyMap
            /\ svc = EmptyMap
            /\ op = "init"
            /\ arg = 0
            /\ ret = "None"
            /\ calls = 0
            /\ phase0 = "setup"
    /\ run2 = [game |-> Game, hashes |-> EmptyMap]

\* both processes execute their next loop iteration
RunsIteration(h1, uuids1, h2, uuids2) ==
    /\ round <= MaxRunsRound
    /\ Running(Game)
    /\ Running(run2.game)
    /\ HashOk(Game, hashes, h1)
    /\ UuidsOk(Game, uuids1)
    /\ HashOk(run2.game, run2.hashes, h2)
    /\ UuidsOk(run2.game, uuids2)
    /\ hashes' = HashesAfter(Game, hashes, h1)
    /\ LET g == loop_body(Game, h1, FreshUuids(Game, uuids1))
       IN  /\ Install(g)
           /\ calls' = IF g.ret = "Hang" THEN calls ELSE calls + 1
    /\ run2' = [game |-> loop_body(run2.game, h2,
                                   FreshUuids(run2.game, uuids2)),
                hashes |-> HashesAfter(run2.game, run2.hashes, h2)]
    /\ op' = HandlerName(phase)
    /\ arg' = IF UsesHash(Game) THEN h1 ELSE 0
    /\ UNCHANGED <<svc, phase0>>

NextRuns ==
    \E h1 \in HashInputs, uuids1 \in UuidInputs,
       h2 \in HashInputs, uuids2 \in UuidInputs :
        RunsIteration(h1, uuids1, h2, uuids2)

SpecRuns == InitRuns /\ [][NextRuns]_vars

\* C17: two runs of a game on the same players and the same sequence of
\* external actions produce identical action logs, identical service ids
\* and identical metrics (the entries of the modelled log carry neither the
\* timestamp nor the state fingerprint, which the claim also requires equal).
C17_Determinism ==
    /\ action_log = run2.game.action_log
    /\ DOMAIN services = DOMAIN run2.game.services
    /\ metrics = run2.game.metrics
    /\ services_built = run2.game.services_built

----------------------------------------------------------------------------
(* Hexagonal coordinates.  A coordinate is <<row, col>>. *)

Abs(x) == IF x >= 0 THEN x ELSE -x

\* HexCoordinate.cube_coords / offset_to_cube: row & 1 is the low bit of the
\* two's-complement row (0 or 1 for negative rows too), // rounds down
cube_coords(coord) ==
    LET row == coord[1]
        col == coord[2]
        x == col - ((row - (row % 2)) \div 2)
        z == row
        y == (-x) - z
    IN  <<x, y, z>>

\* mutant: the first term is taken without abs()
distance_no_abs(a, b) ==
    LET c1 == cube_coords(a)
        c2 == cube_coords(b)
    IN  ((c1[1] - c2[1]) + Abs(c1[2] - c2[2]) + Abs(c1[3] - c2[3])) \div 2

\* HexCoordinate.distance_to (advanced) / HexCoordinate.distance (game_state):
\* the same computation in both engines
distance(a, b) ==
    LET c1 == cube_coords(a)
        c2 == cube_coords(b)
    IN  (Abs(c1[1] - c2[1]) + Abs(c1[2] - c2[2]) + Abs(c1[3] - c2[3])) \div 2

EvenRowOffsets ==
    << <<-1, -1>>, <<-1, 0>>, <<0, -1>>, <<0, 1>>, <<1, -1>>, <<1, 0>> >>

OddRowOffsets ==
    << <<-1, 0>>, <<-1, 1>>, <<0, -1>>, <<0, 1>>, <<1, 0>>, <<1, 1>> >>

\* mutant: the even-row offsets are used for every row
neighbors_even_only(coord) ==
    [k \in 1..Len(EvenRowOffsets) |->
        <<coord[1] + EvenRowOffsets[k][1], coord[2] + EvenRowOffsets[k][2]>>]

\* mutant: the two offset tables are exchanged
neighbors_tables_swapped(coord) ==
    LET offsets == IF coord[1] % 2 = 0 THEN OddRowOffsets ELSE EvenRowOffsets
    IN  [k \in 1..Len(offsets) |->
            <<coord[1] + offsets[k][1], coord[2] + offsets[k][2]>>]

\* HexCoordinate.neighbors (radius 1), in the order produced
neighbors(coord) ==
    LET offsets == IF coord[1] % 2 = 0 THEN EvenRowOffsets ELSE OddRowOffsets
    IN  [k \in 1..Len(offsets) |->
            <<coord[1] + offsets[k][1], coord[2] + offsets[k][2]>>]

----------------------------------------------------------------------------
(* Specification SpecHex: distance and neighbors on pairs of coordinates *)

HexInputs == ((-MaxCoord)..MaxCoord) \X ((-MaxCoord)..MaxCoord)

\* arg holds the coordinates <<a, b>> the calls are made on
InitHex ==
    \E e \in Engines, a \in HexInputs, b \in HexInputs :
        /\ engine = e
        /\ phase = "setup"
        /\ round = 1
        /\ players = <<>>
        /\ services = EmptyMap
        /\ grid = EmptyMap
        /\ current_player_index = 0
        /\ services_built = 0
        /\ action_log = <<>>
        /\ entropy = 0
        /\ metrics = NewMetrics
        /\ hashes = EmptyMap
        /\ svc = EmptyMap
        /\ op = "init"
        /\ arg = <<a, b>>
        /\ ret = "None"
        /\ calls = 0
        /\ phase0 = "setup"
        /\ run2 = EmptyMap

\* a.distance_to(b) / a.distance(b)
Distance ==
    /\ op' = "distance"
    /\ ret' = distance(arg[1], arg[2])
    /\ UNCHANGED <<engine, phase, round, players, services, grid,
                   current_player_index, services_built, action_log, entropy,
                   metrics, hashes, svc, arg, calls, phase0, run2>>

\* list(a.neighbors())
Neighbors ==
    /\ op' = "neighbors"
    /\ ret' = neighbors(arg[1])
    /\ UNCHANGED <<engine, phase, round, players, services, grid,
                   current_player_index, services_built, action_log, entropy,
                   metrics, hashes, svc, arg, calls, phase0, run2>>

\* HexCoordinate.neighbors(radius=radius) of the advanced engine, in the
\* order produced: for r = 1..radius, the six base offsets multiplied by r
neighbors_radius(coord, radius) ==
    LET offsets == IF coord[1] % 2 = 0 THEN EvenRowOffsets ELSE OddRowOffsets
        n == Len(offsets)
    IN  [k \in 1..(n * radius) |->
            LET r == ((k - 1) \div n) + 1
                o == offsets[((k - 1) % n) + 1]
            IN  <<coord[1] + o[1] * r, coord[2] + o[2] * r>>]

\* list(a.neighbors(radius=r)); ret holds r and the list
NeighborsRadius ==
    /\ engine = "adv"
    /\ \E r \in 1..MaxRadius :
          ret' = <<r, neighbors_radius(arg[1], r)>>
    /\ op' = "neighbors_radius"
    /\ UNCHANGED <<engine, phase, round, players, services, grid,
                   current_player_index, services_built, action_log, entropy,
                   metrics, hashes, svc, arg, calls, phase0, run2>>

NextHex == Distance \/ Neighbors \/ NeighborsRadius

SpecHex == InitHex /\ [][NextHex]_vars

\* C18: for all hex coordinates a and b (rows and columns of either parity,
\* negative ones included) distance(a, b) = distance(b, a), and
\* distance(a, a) = 0.
C18_DistanceSymmetric ==
    (op = "distance") =>
        /\ ret = distance(arg[2], arg[1])
        /\ (arg[1] = arg[2] => ret = 0)

\* the distance of two different coordinates in rows of different parity,
\* one of them negative
C18_Witness ==
    /\ op = "distance"
    /\ arg[1][1] < 0
    /\ arg[1][1] % 2 = 1
    /\ arg[2][1] % 2 = 0
    /\ ret >= 2

\* C19: for every hex coordinate c (even or odd row), neighbors(c) yields
\* exactly six distinct coordinates and each of them is at distance 1 of c.
C19_NeighborsAtDistanceOne ==
    (op = "neighbors") =>
        /\ Len(ret) = 6
        /\ \A j, k \in 1..Len(ret) : j # k => ret[j] # ret[k]
        /\ \A k \in 1..Len(ret) : distance(arg[1], ret[k]) = 1

\* the neighbours of a coordinate in a negative odd row
C19_Witness ==
    /\ op = "neighbors"
    /\ arg[1][1] < 0
    /\ arg[1][1] % 2 = 1
    /\ Len(ret) = 6

----------------------------------------------------------------------------
(* Claims about remove_service (checked under Spec) *)

\* C20: remove_service(id) for a known id returns True and removes the
\* service from the service map, from the grid index (its location becomes
\* free) and from its owner's service list, leaving all other services,
\* the other players' lists and the metrics counters unchanged; for an
\* unknown id it returns False and changes nothing.
C20_RemoveService ==
    [][ (op' = "remove_service") =>
          LET id == arg'
          IN  IF id \in DOMAIN services
              THEN LET service == services[id]
                       owner == service.owner_id + 1
                   IN  /\ ret' = "True"
                       /\ services' = [x \in DOMAIN services \ {id} |-> services[x]]
                       /\ service.location \notin DOMAIN grid'
                       /\ \A c \in DOMAIN grid' : grid'[c] # id
                       /\ \A c \in DOMAIN grid : grid[c] # id => 
                             c \in DOMAIN grid' /\ grid'[c] = grid[c]
                       /\ owner \in 1..Len(players)
                       /\ Len(players') = Len(players)
                       /\ ~InList(players'[owner].services, id)
                       /\ \A i \in 1..Len(players) :
                             i # owner => players'[i] = players[i]
                       /\ services_built' = services_built
                       /\ metrics' = metrics
              ELSE /\ ret' = "False"
                   /\ GameUnchanged ]_vars

----------------------------------------------------------------------------
(* Specification SpecMetrics: the game loop on games with their starting    *)
(* services, beside the GameState operations of Spec                        *)

\* a Service with its type
TypedService(id, t, loc, owner) ==
    [id |-> id, service_type |-> t, location |-> loc, owner_id |-> owner]

starting_types == <<"compute", "database", "load_balancer">>

RECURSIVE initialize_from(_, _, _, _)
\* initialize_player_services(game, player), from starting type number i on;
\* uuids are the ids uuid4() hands out
initialize_from(g, player, i, uuids) ==
    IF i > Len(starting_types) THEN g
    ELSE initialize_from(
            adv_add_service(g, TypedService(uuids[i], starting_types[i],
                                            <<player.id * 2, (i - 1) * 2>>,
                                            player.id)),
            player, i + 1, uuids)

RECURSIVE initialize_players_from(_, _)
\* the initialize_player_services tasks of simulate_game_async: none of them
\* awaits, so asyncio.gather runs them one after the other in list order
initialize_players_from(g, k) ==
    IF k > Len(g.players) THEN g
    ELSE initialize_players_from(
            initialize_from(g, g.players[k], 1,
                            [i \in 1..Len(starting_types) |-> 1000 + 10 * k + i]),
            k + 1)

\* resource pools of the games of this specification: nothing affordable,
\* exactly one Compute, the default
GamePools ==
    { [cpu |-> 1, memory |-> 1, storage |-> 1],
      [cpu |-> 2, memory |-> 2, storage |-> 1],
      [cpu |-> DefaultResource, memory |-> DefaultResource,
       storage |-> DefaultResource] }

\* simulate_game_async up to its loop
InitLoopGame ==
    \E n \in 1..MaxPlayers :
        \E pools \in [1..n -> GamePools] :
            LET plrs == [i \in 1..n |->
                           [NewPlayer(i - 1) EXCEPT !.resources = pools[i]]]
                g0 == [ engine |-> "adv", phase |-> "setup", round |-> 1,
                        players |-> plrs, services |-> EmptyMap,
                        grid |-> EmptyMap, current_player_index |-> 0,
                        services_built |-> 0, action_log |-> <<>>,
                        entropy |-> 0, metrics |-> NewMetrics, ret |-> "None" ]
                g == initialize_players_from(g0, 1)
            IN  /\ engine = g.engine
                /\ phase = g.phase
                /\ round = g.round
                /\ players = g.players
                /\ services = g.services
                /\ grid = g.grid
                /\ current_player_index = g.current_player_index
                /\ services_built = g.services_built
                /\ action_log = g.action_log
                /\ entropy = g.entropy
                /\ metrics = g.metrics
                /\ ret = "None"
                /\ hashes = EmptyMap
                /\ svc = EmptyMap
                /\ op = "init"
                /\ arg = 0
                /\ calls = 0
                /\ phase0 = "setup"
                /\ run2 = EmptyMap

InitMetrics ==
    \/ InitLoopGame
    \/ InitGame("gs", <<>>, "setup", EmptyMap)

GameIteration(h, uuids) ==
    /\ engine = "adv"
    /\ round <= MaxGameRound
    /\ LoopIteration(h, uuids)

NextMetrics ==
    \/ \E h \in HashInputs, uuids \in UuidInputs : GameIteration(h, uuids)
    \/ engine = "gs" /\ Next

SpecMetrics == InitMetrics /\ [][NextMetrics]_vars

\* C21: total_requests, cascade_failures, chaos_events and services_built
\* never decrease, across add_service, remove_service, next_phase and the
\* traffic / action / resolution / chaos handlers (connections_created is
\* written by no operation).
C21_CountersMonotone ==
    [][ /\ metrics'.total_requests >= metrics.total_requests
        /\ metrics'.cascade_failures >= metrics.cascade_failures
        /\ metrics'.chaos_events >= metrics.chaos_events
        /\ services_built' >= services_built ]_vars

\* a round in which every counter has grown since the game started
C21_Witness ==
    /\ metrics.total_requests > 0
    /\ metrics.cascade_failures > 0
    /\ metrics.chaos_events > metrics.cascade_failures
    /\ services_built > 6

----------------------------------------------------------------------------
(* Specification SpecBuild: the drivers that build services -- the loop of  *)
(* quick_test.py, the phases of demo.py and the loop of                     *)
(* simulate_game_async                                                      *)

QuickTestPlayers == 2

QuickTestRounds == 5

DemoPlayers == 3

DemoRounds == 20

\* "if player.resources.total_resources >= 4: ... if game.add_service(service):
\* player.resources.spend(costs)" of the quick-test and demo loops, for
\* players[i]: the service is added first and what spend() returns is dropped
build_then_spend(g, i, loc, id) ==
    LET player == g.players[i]
    IN  IF total_resources(player.resources) >= 4
        THEN LET g1 == adv_add_service(g, NewService(id, loc, player.id))
             IN  IF g1.ret = "True"
                 THEN [g1 EXCEPT !.players[i].resources =
                                    adv_spend(@, costs("compute")).pool]
                 ELSE g1
        ELSE g

RECURSIVE quick_test_builds(_, _, _)
\* test_async_simulation, "for player in game.players" from position i on
quick_test_builds(g, i, uuids) ==
    IF i > Len(g.players) THEN g
    ELSE quick_test_builds(
            build_then_spend(g, i, <<g.round % 6, g.players[i].id * 3>>,
                             uuids[i]),
            i + 1, uuids)

\* test_async_simulation, the body of "for round_num in range(1, 6)"
quick_test_round(g, round_num, uuids) ==
    LET g0 == [g EXCEPT !.round = round_num, !.phase = "action"]
        g1 == quick_test_builds(g0, 1, uuids)
    IN  [g1 EXCEPT !.players =
            [i \in 1..Len(g1.players) |->
                record_uptime(g1.players[i],
                    Min(100, Len(g1.players[i].services) * 20 + 40))]]

RECURSIVE demo_builds(_, _, _)
\* GameDemo.simulate_phase, case "action", from position i on
demo_builds(g, i, uuids) ==
    IF i > Len(g.players) THEN g
    ELSE demo_builds(
            build_then_spend(g, i,
                <<g.round % grid_height,
                  (g.players[i].id * 2 + g.round) % grid_width>>,
                uuids[i]),
            i + 1, uuids)

\* GameDemo.simulate_phase; hs[i] is hash(f"{game.round}{player.id}") of
\* players[i]
simulate_phase(g, ph, hs, uuids) ==
    CASE ph = "traffic" ->
            [g EXCEPT !.metrics.total_requests =
                        @ + Cardinality(DOMAIN g.services) * 2 + g.round * 1]
      [] ph = "action" -> demo_builds(g, 1, uuids)
      [] ph = "resolution" ->
            [g EXCEPT !.players =
                [i \in 1..Len(g.players) |->
                    LET base_uptime ==
                            Min(100, Len(g.players[i].services) * 15 + 25)
                        variance == (hs[i] % 20) - 10
                    IN  record_uptime(g.players[i],
                            Max(0, Min(100, base_uptime + variance)))]]
      [] ph = "chaos" ->
            LET e == Min(10, g.entropy + 1)
                g1 == [g EXCEPT !.entropy = e]
            IN  IF e > 3
                THEN IF e > 7
                     THEN [g1 EXCEPT !.metrics.chaos_events = @ + 1,
                                     !.metrics.cascade_failures = @ + 1]
                     ELSE [g1 EXCEPT !.metrics.chaos_events = @ + 1]
                ELSE g1

\* the game of test_async_simulation (QuickTestPlayers players) or of
\* demo_single_game (DemoPlayers players), every Player with its defaults
InitDriver ==
    \E n \in {QuickTestPlayers, DemoPlayers} :
        InitGame("adv", [i \in 1..n |-> NewPlayer(i - 1)], "setup", EmptyMap)

InitBuild == InitDriver \/ InitLoopGame

\* one pass of the round loop of test_async_simulation
QuickTestRound(uuids) ==
    /\ Len(players) = QuickTestPlayers
    /\ \/ op = "init" /\ services = EmptyMap
       \/ op = "quick_test" /\ round < QuickTestRounds
    /\ LET round_num == IF op = "init" THEN 1 ELSE round + 1
           g0 == [Game EXCEPT !.round = round_num, !.phase = "action"]
       IN  /\ UuidsOk(g0, uuids)
           /\ Install(quick_test_round(Game, round_num, FreshUuids(g0, uuids)))
    /\ op' = "quick_test"
    /\ calls' = calls + 1
    /\ UNCHANGED <<hashes, svc, arg, phase0, run2>>

\* the phase after ph in the list demo_single_game walks every round
DemoNextPhase(ph) ==
    CASE ph = "traffic" -> "action"
      [] ph = "action" -> "resolution"
      [] ph = "resolution" -> "chaos"
      [] OTHER -> "traffic"

\* the check that ends the round loop of demo_single_game
DemoVictory(g) ==
    /\ g.round >= CoopRound
    /\ \A i \in 1..Len(g.players) : g.players[i].current_uptime > CoopUptime

\* one pass of the phase loop of demo_single_game: game.phase = phase, then
\* simulate_phase(game, phase)
DemoPhase(hs, uuids) ==
    /\ Len(players) = DemoPlayers
    /\ \/ op = "init"
       \/ op = "simulate_phase" /\ phase # "chaos"
       \/ /\ op = "simulate_phase" /\ phase = "chaos"
          /\ ~DemoVictory(Game)
          /\ round < DemoRounds
          /\ round < MaxDemoRound
    /\ LET ph == IF op = "init" THEN "traffic" ELSE DemoNextPhase(phase)
           r == IF op = "simulate_phase" /\ phase = "chaos"
                THEN round + 1 ELSE round
           g0 == [Game EXCEPT !.round = r, !.phase = ph]
       IN  /\ UuidsOk(g0, uuids)
           /\ ph # "resolution" =>
                hs = [i \in 1..DemoPlayers |-> CHOOSE x \in HashInputs : TRUE]
           /\ Install(simulate_phase(g0, ph, hs, FreshUuids(g0, uuids)))
    /\ op' = "simulate_phase"
    /\ calls' = calls + 1
    /\ UNCHANGED <<hashes, svc, arg, phase0, run2>>

\* one pass of the loop of simulate_game_async
SimulateIteration(h, uuids) ==
    /\ op \notin {"quick_test", "simulate_phase"}
    /\ services # EmptyMap
    /\ GameIteration(h, uuids)

NextBuild ==
    \/ \E uuids \in UuidInputs : QuickTestRound(uuids)
    \/ \E hs \in [1..DemoPlayers -> HashInputs], uuids \in UuidInputs :
            DemoPhase(hs, uuids)
    \/ \E h \in HashInputs, uuids \in UuidInputs : SimulateIteration(h, uuids)

SpecBuild == InitBuild /\ [][NextBuild]_vars

\* C22: every build by a driver charges the owner exactly the cost of the
\* service type: in each step of the quick-test loop, the demo phases and
\* the loop of simulate_game_async, a player's pool goes down by the cost of
\* a Compute service times the number of services the step added to the
\* player's list (so (5,5,5) becomes (3,3,4) after one build, and the initial
\* pool minus the current pool is the summed cost of the services built).
C22_BuildCharges ==
    [][ \A i \in 1..Len(players) :
            LET built == Len(players'[i].services) - Len(players[i].services)
                c == costs("compute")
            IN  /\ players[i].resources.cpu - players'[i].resources.cpu
                        = built * c.cpu
                /\ players[i].resources.memory - players'[i].resources.memory
                        = built * c.memory
                /\ players[i].resources.storage
                        - players'[i].resources.storage = built * c.storage
      ]_vars

\* C23: simulate_game_async terminates: every call of handle_action_phase
\* returns (whatever the remaining actions, the pools and the occupancy of
\* the grid are), so that the loop goes on to the next phase and in the end
\* to a state where is_game_over() is true.
C23_ActionPhaseReturns ==
    (op = "handle_action_phase") => ret # "Hang"

\* the hexes a ring around one of HexInputs can hold
RingInputs ==
    ((-MaxCoord - MaxRadius - 1)..(MaxCoord + MaxRadius + 1))
        \X ((-MaxCoord - MaxRadius - 1)..(MaxCoord + MaxRadius + 1))

\* C24: for every coordinate c and radius r >= 1, neighbors(c, radius=r)
\* produces exactly the ring of radius r: every coordinate produced is at
\* distance r of c, and every hex at distance r of c is produced.
C24_NeighborsRing ==
    (op = "neighbors_radius") =>
        LET r == ret[1]
            out == ret[2]
        IN  /\ \A k \in 1..Len(out) : distance(arg[1], out[k]) = r
            /\ \A n \in RingInputs :
                    distance(arg[1], n) = r =>
                        \E k \in 1..Len(out) : out[k] = n

\* the coordinates a list holds
Range(seq) == {seq[k] : k \in 1..Len(seq)}

\* C30: hex adjacency is symmetric although the offset table depends on the
\* parity of the row: for all coordinates a and b, b is in neighbors(a) if
\* and only if a is in neighbors(b), and if and only if distance(a, b) = 1.
C30_AdjacencySymmetric ==
    (op = "neighbors") =>
        /\ (arg[2] \in Range(ret)) <=> (arg[1] \in Range(neighbors(arg[2])))
        /\ (arg[2] \in Range(ret)) <=> (distance(arg[1], arg[2]) = 1)

\* b is a neighbor of a, a in an odd row and b in an even row
C30_Witness ==
    /\ op = "neighbors"
    /\ arg[2] \in Range(ret)
    /\ arg[1][1] % 2 = 1
    /\ arg[2][1] % 2 = 0

----------------------------------------------------------------------------
(* Specification SpecUptime: record_uptime and reads of average_uptime on   *)
(* one advanced Player                                                      *)

\* uptimes callers record
RecordInputs == {0, 60, 100}

\* the player as constructed, or after HistoryLen calls of record_uptime(v)
InitUptime ==
    \E hist \in {<<>>} \cup {[k \in 1..HistoryLen |-> v] : v \in RecordInputs} :
        InitGame("adv",
                 << [NewPlayer(0) EXCEPT
                        !.uptime_history = hist,
                        !.current_uptime =
                            IF hist = <<>> THEN @ ELSE hist[Len(hist)]] >>,
                 "setup", EmptyMap)

\* player.record_uptime(uptime)
RecordUptime(uptime) ==
    /\ calls < MaxRecords
    /\ players' = [players EXCEPT ![1] = record_uptime(@, uptime)]
    /\ op' = "record_uptime"
    /\ arg' = uptime
    /\ ret' = "None"
    /\ calls' = calls + 1
    /\ UNCHANGED <<engine, phase, round, services, grid, current_player_index,
                   services_built, action_log, entropy, metrics, hashes, svc,
                   phase0, run2>>

\* player.average_uptime
AverageUptime ==
    /\ ret' = average_uptime(players[1])
    /\ players' = [players EXCEPT ![1] = ReadAverage(@)]
    /\ op' = "average_uptime"
    /\ arg' = 0
    /\ UNCHANGED <<engine, phase, round, services, grid, current_player_index,
                   services_built, action_log, entropy, metrics, hashes, svc,
                   calls, phase0, run2>>

NextUptime == (\E uptime \in RecordInputs : RecordUptime(uptime)) \/ AverageUptime

SpecUptime == InitUptime /\ [][NextUptime]_vars

\* C25: after any sequence of record_uptime calls and reads, a read of
\* average_uptime returns the mean of the current uptime history (the last
\* HistoryLen values at most), or current_uptime when nothing was recorded:
\* a value read earlier is not returned again once the mean has changed.
C25_AverageIsCurrent ==
    (op = "average_uptime") =>
        LET player == players[1]
            mean == IF player.uptime_history = <<>>
                    THEN <<player.current_uptime, 1>>
                    ELSE <<SeqSum(player.uptime_history),
                           Len(player.uptime_history)>>
        IN  ret[1] * mean[2] = mean[1] * ret[2]

\* number of positions of seq that hold x
Count(seq, x) == Cardinality({k \in 1..Len(seq) : seq[k] = x})

\* C29: in game_state.GameState the grid index, the service map and the
\* players' service lists stay consistent after any add_service and
\* remove_service calls (ids already in use included): the grid maps
\* location L to id S exactly when the map holds S at location L, and an id
\* is in a player's list, once, exactly when the map holds it with that
\* player as owner.
C29_IndexesConsistent ==
    (engine = "gs") =>
        /\ \A loc \in DOMAIN grid :
                /\ grid[loc] \in DOMAIN services
                /\ services[grid[loc]].location = loc
        /\ \A id \in DOMAIN services :
                /\ services[id].location \in DOMAIN grid
                /\ grid[services[id].location] = id
        /\ \A i \in 1..Len(players) : \A id \in Ids :
                Count(players[i].services, id) =
                    IF id \in DOMAIN services
                       /\ services[id].owner_id = players[i].id
                    THEN 1 ELSE 0

----------------------------------------------------------------------------
(* Specification SpecCreate: create_initial_game_state of game_state.py and *)
(* the turn order of the game it returns                                    *)

starting_positions == << <<1, 1>>, <<1, 6>>, <<4, 1>>, <<4, 6>> >>

starting_services == <<"compute", "database", "load_balancer">>

RECURSIVE place_starting_from(_, _, _, _)
\* create_initial_game_state, the loops over players and starting_services
\* from players[i] and starting_services[j] on: a cell outside the grid is
\* passed over
place_starting_from(g, i, j, uuids) ==
    IF i > Len(g.players) THEN g
    ELSE IF i > Len(starting_positions) \/ j > Len(starting_services)
    THEN place_starting_from(g, i + 1, 1, uuids)
    ELSE LET base_coord == starting_positions[i]
             coord == <<base_coord[1], base_coord[2] + (j - 1)>>
         IN  IF is_valid_coordinate(coord)
             THEN place_starting_from(
                    gs_add_service(g,
                        TypedService(Head(uuids), starting_services[j], coord,
                                     g.players[i].id)),
                    i, j + 1, Tail(uuids))
             ELSE place_starting_from(g, i, j + 1, uuids)

\* create_initial_game_state(player_names) for n names, on the fresh
\* GameState g
create_initial_game_state(g, n, uuids) ==
    LET g0 == [g EXCEPT !.players = [i \in 1..n |-> NewPlayer(i - 1)]]
        g1 == place_starting_from(g0, 1, 1, uuids)
    IN  [g1 EXCEPT !.action_log = log_action(g1, "game_start", -1, n),
                   !.ret = "GameState"]

\* orders in which uuid4() may hand out the ids of the starting services
CreateUuids ==
    LET len == MaxNames * Len(starting_services)
    IN  { [k \in 1..len |-> k], [k \in 1..len |-> len + 1 - k] }

InitCreate == InitGame("gs", <<>>, "setup", EmptyMap)

CreateInitialGameState(n, uuids) ==
    /\ op = "init"
    /\ Install(create_initial_game_state(Game, n, uuids))
    /\ op' = "create_initial_game_state"
    /\ arg' = n
    /\ UNCHANGED <<hashes, svc, calls, phase0, run2>>

\* the returned game is played: next_player() and next_phase()
NextCreate ==
    \/ \E n \in 0..MaxNames, uuids \in CreateUuids :
            CreateInitialGameState(n, uuids)
    \/ op # "init" /\ players # <<>> /\ NextPlayer
    \/ op # "init" /\ NextPhase

SpecCreate == InitCreate /\ [][NextCreate]_vars

\* the types of the services players[i] owns, in the order of its list
OwnedTypes(i) ==
    [k \in 1..Len(players[i].services) |->
        services[players[i].services[k]].service_type]

\* C27: create_initial_game_state places the starting services: in a game
\* of one to four players each player owns exactly three services, one
\* Compute, one Database and one Load Balancer, on three distinct cells
\* inside the 8x6 grid, and services_built is 3 times the number of players.
C27_StartingServices ==
    (op = "create_initial_game_state" /\ arg >= 1 /\ arg <= 4) =>
        /\ Len(players) = arg
        /\ \A i \in 1..Len(players) :
            /\ Len(players[i].services) = 3
            /\ \A t \in {"compute", "database", "load_balancer"} :
                    Count(OwnedTypes(i), t) = 1
            /\ \A k \in 1..Len(players[i].services) :
                    LET s == services[players[i].services[k]]
                    IN  /\ is_valid_coordinate(s.location)
                        /\ s.owner_id = players[i].id
                        /\ grid[s.location] = s.id
        /\ services_built = 3 * arg

----------------------------------------------------------------------------
(* The simplified engine, simple_game_state.py, and the experiment runner   *)
(* run_experiment.py that drives it.  engine = "simple"; service ids        *)
(* "svc_<n>" are written n; run2 holds the runner's configuration and the   *)
(* state of its batch.                                                      *)

\* F applied to the value of e, with e evaluated once
Bind(e, F(_)) == CHOOSE y \in {F(x) : x \in {e}} : TRUE

\* simple_game_state.ServiceType, in the order of the enumeration
ServiceTypeOrder ==
    <<"compute", "database", "cache", "queue", "load_balancer", "api_gateway">>

\* simple_game_state.Player(id=i, name=...)
SimplePlayer(i) ==
    [ id |-> i,
      services |-> <<>>,
      resources |-> [cpu |-> DefaultResource, memory |-> DefaultResource,
                     storage |-> DefaultResource],
      current_uptime |-> 100 ]

\* simple_game_state.GameState() with the players plrs
SimpleGame(plrs) ==
    [ engine |-> "simple", phase |-> "setup", round |-> 0, players |-> plrs,
      services |-> EmptyMap, grid |-> EmptyMap, current_player_index |-> 0,
      services_built |-> 0, action_log |-> <<>>, entropy |-> 0,
      metrics |-> NewMetrics, ret |-> "None" ]

\* simple_game_state.GameState.add_service: the bounds are the only check
simple_add_service(g, service) ==
    IF is_valid_coordinate(service.location)
    THEN LET s1 == DictSet(g.services, service.id, service)
             p == PyIndex(g.players, service.owner_id)
         IN  IF p = 0
             THEN \* IndexError propagates, the map is already written
                  [g EXCEPT !.services = s1, !.ret = "IndexError"]
             ELSE [g EXCEPT !.services = s1,
                            !.players = AppendService(g.players, p, service.id),
                            !.ret = "True"]
    ELSE [g EXCEPT !.ret = "False"]

\* ServiceCostExperiment.is_location_empty
is_location_empty(g, coord) ==
    \A id \in DOMAIN g.services : g.services[id].location # coord

\* self.config.service_costs.get(t, {}).get(key, 0)
cost_get(cfg, t, key) ==
    IF t \in DOMAIN cfg.service_costs THEN cfg.service_costs[t][key] ELSE 0

\* the comparison of can_afford_any_service and choose_service_type
affordable_type(cfg, player, t) ==
    /\ player.resources.cpu >= cost_get(cfg, t, "cpu")
    /\ player.resources.memory >= cost_get(cfg, t, "memory")
    /\ player.resources.storage >= cost_get(cfg, t, "storage")

\* ServiceCostExperiment.can_afford_any_service
can_afford_any_service(cfg, player) ==
    \E k \in 1..Len(ServiceTypeOrder) :
        affordable_type(cfg, player, ServiceTypeOrder[k])

RECURSIVE affordable_from(_, _, _)
\* choose_service_type, the list "affordable" built from ServiceType[k..]
affordable_from(cfg, player, k) ==
    IF k > Len(ServiceTypeOrder) THEN <<>>
    ELSE (IF affordable_type(cfg, player, ServiceTypeOrder[k])
          THEN <<ServiceTypeOrder[k]>> ELSE <<>>)
         \o affordable_from(cfg, player, k + 1)

\* ServiceCostExperiment.choose_service_type; pick is what random.choice
\* draws ("first" or "last" of the list).  max() reads
\* self.config.service_costs[st.value] of every affordable type.
choose_service_type(cfg, player, pick) ==
    LET affordable == affordable_from(cfg, player, 1)
    IN  IF affordable = <<>> THEN "None"
        ELSE IF cfg.strategy = "balanced"
        THEN IF pick = "first" THEN affordable[1]
             ELSE affordable[Len(affordable)]
        ELSE IF cfg.strategy = "aggressive"
        THEN IF \E k \in 1..Len(affordable) :
                    affordable[k] \notin DOMAIN cfg.service_costs
             THEN "KeyError"
             ELSE affordable[
                    CHOOSE i \in 1..Len(affordable) :
                        /\ \A j \in 1..Len(affordable) :
                            cfg.service_costs[affordable[j]].capacity
                                <= cfg.service_costs[affordable[i]].capacity
                        /\ \A j \in 1..(i - 1) :
                            cfg.service_costs[affordable[j]].capacity
                                < cfg.service_costs[affordable[i]].capacity]
        ELSE affordable[1]

\* try_build_service once the scan has found the empty cells
try_build_at(g, cfg, i, t, empty) ==
    IF empty = {} THEN [g EXCEPT !.ret = "False"]
    ELSE IF t \notin DOMAIN cfg.service_costs
    THEN \* self.config.service_costs[service_type.value]
         [g EXCEPT !.ret = "KeyError"]
    ELSE
        LET coord == CHOOSE c \in empty :
                        \A d \in empty : ScanIndex(c) <= ScanIndex(d)
            service == TypedService(Cardinality(DOMAIN g.services), t,
                                    coord, g.players[i].id)
            c == cfg.service_costs[t]
            g1 == [g EXCEPT !.players[i].resources =
                        [cpu |-> @.cpu - c.cpu,
                         memory |-> @.memory - c.memory,
                         storage |-> @.storage - c.storage]]
        IN  Bind(simple_add_service(g1, service),
                 LAMBDA g2 : IF g2.ret = "IndexError" THEN g2
                             ELSE [g2 EXCEPT !.ret = "True"])

\* ServiceCostExperiment.try_build_service for players[i] and type t
try_build_service(g, cfg, i, t) ==
    Bind({c \in AllCells : is_location_empty(g, c)},
         LAMBDA empty : try_build_at(g, cfg, i, t, empty))

\* an exception left the call
Raised(g) == g.ret \in {"KeyError", "IndexError", "ZeroDivisionError"}

RECURSIVE simulate_action_from(_, _, _, _)
\* simulate_action_phase, "for player in game.players" from position i on;
\* picks[i] is the draw of random.choice for players[i]
simulate_action_from(g, cfg, i, picks) ==
    IF i > Len(g.players) THEN g
    ELSE IF ~can_afford_any_service(cfg, g.players[i])
    THEN simulate_action_from(g, cfg, i + 1, picks)
    ELSE
        Bind(choose_service_type(cfg, g.players[i], picks[i]), LAMBDA t :
            IF t = "KeyError" THEN [g EXCEPT !.ret = "KeyError"]
            ELSE IF t = "None" THEN simulate_action_from(g, cfg, i + 1, picks)
            ELSE
                Bind(try_build_service(g, cfg, i, t), LAMBDA g1 :
                    IF Raised(g1) THEN g1
                    ELSE IF g1.ret = "True"
                    THEN simulate_action_from(
                            [g1 EXCEPT !.services_built = @ + 1,
                                       !.ret = "None"],
                            cfg, i + 1, picks)
                    ELSE simulate_action_from([g1 EXCEPT !.ret = "None"],
                                              cfg, i + 1, picks)))

\* ServiceCostExperiment.simulate_action_phase
simulate_action_phase(g, cfg, picks) ==
    simulate_action_from([g EXCEPT !.ret = "None"], cfg, 1, picks)

\* the engine's cost table as a configuration, and a configuration that
\* lists the costs of two types only
CostInputsAll ==
    [t \in {ServiceTypeOrder[k] : k \in 1..Len(ServiceTypeOrder)} |-> costs(t)]

CostInputsSome == [t \in {"compute", "database"} |-> costs(t)]

\* ExperimentConfig values: service_costs, games, players, strategy,
\* max_rounds
ConfigInputs ==
    [ service_costs : {CostInputsAll, CostInputsSome},
      games : 1..MaxGames,
      players : 0..MaxPlayers,
      strategy : {"balanced", "aggressive", "first"},
      max_rounds : {MaxBatchRounds} ]

PickInputs == [1..MaxPlayers -> {"first", "last"}]

----------------------------------------------------------------------------
(* Specification SpecSimple: add_service calls and action phases of the     *)
(* runner on one simplified game                                            *)

SimpleIds == 0..MaxIds

InitSimple ==
    \E cfg \in ConfigInputs :
        /\ cfg.games = 1
        /\ cfg.players >= 1
        /\ LET g == SimpleGame([i \in 1..cfg.players |-> SimplePlayer(i - 1)])
           IN  /\ engine = g.engine
               /\ phase = g.phase
               /\ round = g.round
               /\ players = g.players
               /\ services = g.services
               /\ grid = g.grid
               /\ current_player_index = g.current_player_index
               /\ services_built = g.services_built
               /\ action_log = g.action_log
               /\ entropy = g.entropy
               /\ metrics = g.metrics
               /\ ret = g.ret
        /\ hashes = EmptyMap
        /\ svc = EmptyMap
        /\ op = "init"
        /\ arg = 0
        /\ calls = 0
        /\ phase0 = "setup"
        /\ run2 = [config |-> cfg]

\* game.add_service(Service(id, ServiceType.COMPUTE, loc, owner))
SimpleAddService(id, loc, owner) ==
    /\ calls < MaxSimpleCalls
    /\ ~Raised(Game)
    /\ \E g \in {simple_add_service(Game,
                                      TypedService(id, "compute", loc, owner))} :
            Install(g)
    /\ op' = "add_service"
    /\ arg' = loc
    /\ calls' = calls + 1
    /\ UNCHANGED <<hashes, svc, phase0, run2>>

\* experiment.simulate_action_phase(game, usage)
SimulateActionPhase(picks) ==
    /\ round < MaxBatchRounds
    /\ ~Raised(Game)
    /\ \E g \in {simulate_action_phase(Game, run2.config, picks)} :
            Install([g EXCEPT !.round = @ + 1])
    /\ op' = "simulate_action_phase"
    /\ arg' = 0
    /\ UNCHANGED <<hashes, svc, calls, phase0, run2>>

NextSimple ==
    \/ \E id \in SimpleIds, loc \in InputLocations, owner \in InputOwners :
            SimpleAddService(id, loc, owner)
    \/ \E picks \in PickInputs : SimulateActionPhase(picks)

SpecSimple == InitSimple /\ [][NextSimple]_vars

\* C28: in the simplified engine no two services are at the same location
\* and every service is inside the grid, after any add_service calls and
\* any rounds of try_build_service; the number of services is at most
\* grid_width * grid_height.
C28_SimpleGrid ==
    (engine = "simple") =>
        /\ \A a, b \in DOMAIN services :
                services[a].location = services[b].location => a = b
        /\ \A a \in DOMAIN services : is_valid_coordinate(services[a].location)
        /\ Cardinality(DOMAIN services) <= grid_width * grid_height

----------------------------------------------------------------------------
(* Specification SpecBatch: run_experiment, a batch of games of             *)
(* run_single_game.  run2 holds the configuration, the loop index i, the    *)
(* list of results, whether a game is under way, and the counters           *)
(* run_single_game keeps next to the game.                                  *)

\* uniform(-5, 5) draws of update_uptimes
VarianceInputs == [1..MaxPlayers -> {-5, 5}]

\* ServiceCostExperiment.check_resource_starvation
check_resource_starvation(g) ==
    Cardinality({i \in 1..Len(g.players) :
                    total_resources(g.players[i].resources) < 3})

\* ServiceCostExperiment.simulate_chaos_phase; draw is
\* random.random() < 0.3
simulate_chaos_phase(round_num, draw) ==
    IF round_num > 5 /\ draw THEN 1 ELSE 0

\* ServiceCostExperiment.update_uptimes; vs[i] is the variance drawn for
\* players[i]
update_uptimes(g, vs) ==
    [g EXCEPT !.players =
        [i \in 1..Len(g.players) |->
            LET base_uptime == Min(100, Len(g.players[i].services) * 15 + 40)
            IN  [g.players[i] EXCEPT !.current_uptime =
                                        Max(0, Min(100, base_uptime + vs[i]))]]]

RECURSIVE SumUptime(_, _)
\* sum(p.current_uptime for p in game.players), from position i on
SumUptime(plrs, i) ==
    IF i > Len(plrs) THEN 0
    ELSE plrs[i].current_uptime + SumUptime(plrs, i + 1)

\* ServiceCostExperiment.create_result (the average as <<sum, count>>)
create_result(g, winner, sum, loc, coop) ==
    [ rounds |-> g.round, winner |-> winner,
      services_built |-> g.services_built,
      avg_uptime |-> <<sum, Len(g.players)>>,
      resource_starvation_events |-> loc.resource_starvation,
      chaos_events |-> loc.chaos_events,
      cooperative_victory |-> coop,
      final_scores |-> [i \in 1..Len(g.players) |-> g.players[i].current_uptime] ]

\* run_single_game, one pass of "while rounds < self.config.max_rounds"
\* after simulate_action_phase has given g1, and, when the pass was the last
\* one, the lines after the loop.  Gives the game, the counters, and what
\* run_single_game does next: "loop", "raise" or "return" with the result.
round_outcome(g1, cfg, loc, vs, draw) ==
    LET loc1 == [resource_starvation |->
                    loc.resource_starvation + check_resource_starvation(g1),
                 chaos_events |->
                    loc.chaos_events + simulate_chaos_phase(g1.round, draw)]
        g2 == update_uptimes(g1, vs)
        sum == SumUptime(g2.players, 1)
        n == Len(g2.players)
        active == {i \in 1..n : g2.players[i].current_uptime > 0}
    IN  IF Raised(g1) THEN [game |-> g1, loc |-> loc, next |-> "raise"]
        ELSE IF n = 0
        THEN [game |-> [g2 EXCEPT !.ret = "ZeroDivisionError"], loc |-> loc1,
              next |-> "raise"]
        ELSE IF g2.round >= CoopRound /\ sum >= CoopUptime * n
        THEN [game |-> g2, loc |-> loc1, next |-> "return",
              result |-> create_result(g2, "None", sum, loc1, TRUE)]
        ELSE IF Cardinality(active) <= 1
        THEN [game |-> g2, loc |-> loc1, next |-> "return",
              result |-> create_result(g2,
                            IF active = {} THEN "None"
                            ELSE g2.players[CHOOSE i \in active : TRUE].id,
                            sum, loc1, FALSE)]
        ELSE IF g2.round >= cfg.max_rounds
        THEN [game |-> g2, loc |-> loc1, next |-> "return",
              result |-> create_result(g2,
                            g2.players[
                                CHOOSE i \in 1..n :
                                    /\ \A j \in 1..n :
                                        g2.players[j].current_uptime
                                            <= g2.players[i].current_uptime
                                    /\ \A j \in 1..(i - 1) :
                                        g2.players[j].current_uptime
                                            < g2.players[i].current_uptime].id,
                            sum, loc1, FALSE)]
        ELSE [game |-> g2, loc |-> loc1, next |-> "loop"]

\* run_single_game, one pass of the loop: rounds += 1, the action phase, and
\* the rest of the pass
game_round(g, cfg, loc, picks, vs, draw) ==
    Bind(simulate_action_phase([g EXCEPT !.round = @ + 1], cfg, picks),
         LAMBDA g1 : round_outcome(g1, cfg, loc, vs, draw))

NoCounters == [resource_starvation |-> 0, chaos_events |-> 0]

\* ServiceCostExperiment(config), run_experiment() entered
InitBatch ==
    \E cfg \in ConfigInputs :
        /\ LET g == SimpleGame(<<>>)
           IN  /\ engine = g.engine
               /\ phase = g.phase
               /\ round = g.round
               /\ players = g.players
               /\ services = g.services
               /\ grid = g.grid
               /\ current_player_index = g.current_player_index
               /\ services_built = g.services_built
               /\ action_log = g.action_log
               /\ entropy = g.entropy
               /\ metrics = g.metrics
               /\ ret = g.ret
        /\ hashes = EmptyMap
        /\ svc = EmptyMap
        /\ op = "init"
        /\ arg = 0
        /\ calls = 0
        /\ phase0 = "setup"
        /\ run2 = [config |-> cfg, i |-> 0, results |-> <<>>,
                   status |-> "running", in_game |-> FALSE, loc |-> NoCounters]

\* run_experiment, "for i in range(self.config.games)" enters
\* run_single_game: the game and its players are created
StartGame ==
    /\ run2.status = "running"
    /\ ~run2.in_game
    /\ run2.i < run2.config.games
    /\ Install(SimpleGame([i \in 1..run2.config.players |->
                                SimplePlayer(i - 1)]))
    /\ run2' = [run2 EXCEPT !.in_game = TRUE, !.loc = NoCounters]
    /\ op' = "run_single_game"
    /\ arg' = run2.i
    /\ UNCHANGED <<hashes, svc, calls, phase0>>

\* one round of the game under way; a result returned is appended to
\* results and the loop of run_experiment goes on, an exception leaves
\* run_single_game and run_experiment
GameRound(picks, vs, draw) ==
    /\ run2.status = "running"
    /\ run2.in_game
    /\ (round + 1 <= 5) => ~draw
    /\ \E r \in {game_round(Game, run2.config, run2.loc, picks, vs, draw)} :
           /\ Install(IF r.next = "return"
                      THEN [r.game EXCEPT !.ret = "GameResult"] ELSE r.game)
           /\ run2' =
                CASE r.next = "loop" -> [run2 EXCEPT !.loc = r.loc]
                  [] r.next = "raise" ->
                        [run2 EXCEPT !.loc = r.loc, !.in_game = FALSE,
                                     !.status = "aborted"]
                  [] r.next = "return" ->
                        [run2 EXCEPT !.loc = r.loc, !.in_game = FALSE,
                                     !.results = Append(@, r.result),
                                     !.i = @ + 1,
                                     !.status =
                                        IF run2.i + 1 = run2.config.games
                                        THEN "done" ELSE "running"]
    /\ op' = "game_round"
    /\ arg' = run2.i
    /\ UNCHANGED <<hashes, svc, calls, phase0>>

NextBatch ==
    \/ StartGame
    \/ \E picks \in PickInputs, vs \in VarianceInputs, draw \in BOOLEAN :
            GameRound(picks, vs, draw)

SpecBatch == InitBatch /\ [][NextBatch]_vars

\* C26: in a batch of N games an error raised inside one game is recorded
\* for that game and the batch runs the remaining games: when the batch has
\* stopped, it has produced N results.
C26_BatchCompletes ==
    (engine = "simple" /\ "status" \in DOMAIN run2 /\ run2.status # "running") =>
        Len(run2.results) = run2.config.games

====
